---- MODULE Spec2Model ----
(***************************************************************************)
(* A model of ndml, the header-only linear algebra library: vec<N, T>,     *)
(* mat<R, C, T> and the operations over them.                              *)
(*                                                                         *)
(* The element type T is modelled as exact rational arithmetic: a value is *)
(* a pair <<n, d>> in lowest terms with d > 0.  A division by zero has no  *)
(* exact value; it yields NaN == <<0, 0>>, which every later operation     *)
(* propagates (the non-finite results of an IEEE type).  The sines,        *)
(* cosines and square roots of the rotations also take the values          *)
(* (n / d) * sqrt(2), written <<n, -d>> with n # 0 and d > 0.              *)
(***************************************************************************)
EXTENDS Integers, Sequences, FiniteSets, TLC

VARIABLES v, m, nw, out

vars == <<v, m, nw, out>>

(***************************************************************************)
(* Bounds.                                                                 *)
(***************************************************************************)
\* element values written by the operations are the integers -MaxVal..MaxVal
MaxVal == 1

\* indices passed to the subscript operators range over 0..MaxIndex
MaxIndex == 5

(***************************************************************************)
(* The element type T.                                                     *)
(***************************************************************************)
Abs(n) == IF n < 0 THEN -n ELSE n

RECURSIVE GCD(_, _)
GCD(a, b) == IF b = 0 THEN a ELSE GCD(b, a % b)

NaN == <<0, 0>>

IsNaN(a) == a[2] = 0

\* the value n / d in lowest terms
Rat(n, d) ==
    IF d = 0 THEN NaN
    ELSE LET g == GCD(Abs(n), Abs(d))
             s == IF d < 0 THEN -1 ELSE 1
         IN  <<(s * n) \div g, (s * d) \div g>>

T(n) == <<n, 1>>

Zero == T(0)

One == T(1)

\* the value (n / d) * sqrt(2) in lowest terms
Surd(n, d) ==
    LET r == Rat(n, d)
    IN  IF r[2] = 0 \/ r[1] = 0 THEN r ELSE <<r[1], -r[2]>>

IsSurd(a) == a[2] < 0

\* the sum of two values of which one is a multiple of sqrt(2): exact when the
\* other is one too, or is zero
surd_sum(lhs, rhs) ==
    IF IsSurd(lhs) /\ IsSurd(rhs)
    THEN LET g == GCD(-lhs[2], -rhs[2])
         IN  Surd(lhs[1] * ((-rhs[2]) \div g) + rhs[1] * ((-lhs[2]) \div g),
                  ((-lhs[2]) \div g) * (-rhs[2]))
    ELSE IF lhs[1] = 0 THEN rhs
    ELSE IF rhs[1] = 0 THEN lhs
    ELSE NaN

\* lhs += rhs; the sum is taken over the least common denominator
addition_assignment(lhs, rhs) ==
    IF lhs[2] = 1 /\ rhs[2] = 1 THEN <<lhs[1] + rhs[1], 1>>
    ELSE IF IsNaN(lhs) \/ IsNaN(rhs) THEN NaN
    ELSE IF IsSurd(lhs) \/ IsSurd(rhs) THEN surd_sum(lhs, rhs)
    ELSE LET g == GCD(lhs[2], rhs[2])
         IN  Rat(lhs[1] * (rhs[2] \div g) + rhs[1] * (lhs[2] \div g),
                 (lhs[2] \div g) * rhs[2])

\* lhs -= rhs
subtraction_assignment(lhs, rhs) ==
    IF lhs[2] = 1 /\ rhs[2] = 1 THEN <<lhs[1] - rhs[1], 1>>
    ELSE IF IsNaN(lhs) \/ IsNaN(rhs) THEN NaN
    ELSE IF IsSurd(lhs) \/ IsSurd(rhs) THEN surd_sum(lhs, <<-rhs[1], rhs[2]>>)
    ELSE LET g == GCD(lhs[2], rhs[2])
         IN  Rat(lhs[1] * (rhs[2] \div g) - rhs[1] * (lhs[2] \div g),
                 (lhs[2] \div g) * rhs[2])

\* lhs *= rhs
multiplication_assignment(lhs, rhs) ==
    IF lhs[2] = 1 /\ rhs[2] = 1 THEN <<lhs[1] * rhs[1], 1>>
    ELSE IF IsNaN(lhs) \/ IsNaN(rhs) THEN NaN
    ELSE IF IsSurd(lhs) /\ IsSurd(rhs) THEN Rat(2 * lhs[1] * rhs[1], lhs[2] * rhs[2])
    ELSE IF IsSurd(lhs) \/ IsSurd(rhs) THEN Surd(lhs[1] * rhs[1], Abs(lhs[2] * rhs[2]))
    ELSE Rat(lhs[1] * rhs[1], lhs[2] * rhs[2])

\* lhs /= rhs
division_assignment(lhs, rhs) ==
    IF IsNaN(lhs) \/ IsNaN(rhs) THEN NaN
    ELSE IF IsSurd(lhs) /\ IsSurd(rhs) THEN Rat(lhs[1] * rhs[2], lhs[2] * rhs[1])
    ELSE IF IsSurd(rhs) THEN Surd(lhs[1] * (-rhs[2]), 2 * lhs[2] * rhs[1])
    ELSE IF IsSurd(lhs) THEN Surd(lhs[1] * rhs[2], (-lhs[2]) * rhs[1])
    ELSE Rat(lhs[1] * rhs[2], lhs[2] * rhs[1])

Neg(a) == IF IsNaN(a) THEN NaN ELSE <<-a[1], a[2]>>

Vals == {T(n) : n \in (-1)..MaxVal}

(***************************************************************************)
(* vec<N, T>: the four members x, y, z, w; a member whose index is not     *)
(* below N has the empty burn type.                                        *)
(***************************************************************************)
burn_t == <<>>

component_type(N, I) == IF I < N THEN Zero ELSE burn_t

\* vec() = default: the components are value-initialized
vec_default(N) ==
    [dimension |-> N,
     x |-> component_type(N, 0), y |-> component_type(N, 1),
     z |-> component_type(N, 2), w |-> component_type(N, 3)]

OutOfRange == "out_of_range"

\* vec::operator[]: the member selected by the switch on i, with the
\* fall-through of the cases whose `if constexpr` is false, or the throw
subscript_mutant(N, i) ==
    IF i = 0 /\ 0 < N THEN "x"
    ELSE IF i <= 1 /\ 1 < N THEN "y"
    ELSE IF i <= 2 /\ 2 < N THEN "z"
    ELSE IF i <= 3 /\ 3 < N THEN "w"
    ELSE IF N = 4 THEN OutOfRange
    ELSE IF N = 3 THEN "z" ELSE IF N = 2 THEN "y" ELSE "x"

subscript(N, i) ==
    IF i = 0 /\ 0 < N THEN "x"
    ELSE IF i <= 1 /\ 1 < N THEN "y"
    ELSE IF i <= 2 /\ 2 < N THEN "z"
    ELSE IF i <= 3 /\ 3 < N THEN "w"
    ELSE OutOfRange

\* the value read through the reference v[i] returns
vec_get(u, i) == u[subscript(u.dimension, i)]

\* the vector after the assignment v[i] = val through that reference
vec_set_mutant(u, i, val) ==
    IF i = 1 THEN [u EXCEPT !.x = val] ELSE [u EXCEPT ![subscript(u.dimension, i)] = val]

vec_set(u, i, val) == [u EXCEPT ![subscript(u.dimension, i)] = val]

(***************************************************************************)
(* mat<R, C, T>: C columns, each a vec<R, T>.                              *)
(***************************************************************************)
\* mat() = default: the columns are value-initialized
mat_default(R, C) ==
    [row_count |-> R, column_count |-> C,
     columns_ |-> [c \in 0..(C - 1) |-> vec_default(R)]]

\* mat::operator[](column, row) is self[column][row]: the unchecked array
\* subscript columns_[column] (column < C here), then vec::operator[](row)
mat_subscript_mutant(mm, column, row) ==
    IF row < mm.row_count THEN subscript(mm.row_count, row) ELSE "x"

mat_subscript(mm, column, row) == subscript(mm.columns_[column].dimension, row)

\* the value of m[column, row], for row < R
mat_get(mm, column, row) == mm.columns_[column][mat_subscript(mm, column, row)]

\* the matrix after m[column, row] = val, for row < R
mat_set(mm, column, row, val) ==
    [mm EXCEPT !.columns_[column][mat_subscript(mm, column, row)] = val]

Terminate == "terminate"

\* mat::mat(FromT const& scale) noexcept: (*this)[i, i] = scale for every
\* i < column_count; an exception leaving the noexcept body ends the program
RECURSIVE mat_scalar_loop(_, _, _)
mat_scalar_loop(mm, i, scale) ==
    IF i >= mm.column_count THEN [status |-> "ok", value |-> mm]
    ELSE IF mat_subscript(mm, i, i) = OutOfRange
         THEN [status |-> Terminate, raised |-> OutOfRange, value |-> mm]
         ELSE mat_scalar_loop(mat_set(mm, i, i, scale), i + 1, scale)

mat_scalar(R, C, scale) == mat_scalar_loop(mat_default(R, C), 0, scale)

\* vec(components...): (*this)[i++] = component for every argument in order;
\* the deduced dimension is the number of arguments
RECURSIVE vec_components_loop(_, _, _)
vec_components_loop(u, components, i) ==
    IF i >= Len(components) THEN u
    ELSE vec_components_loop(vec_set(u, i, components[i + 1]), components, i + 1)

vec_components(N, components) == vec_components_loop(vec_default(N), components, 0)

\* the lambdas of the scalar compound assignments, component *= scale and
\* component /= scale, and of the unary operators, component = +component
\* and component = -component
scale_lambda(f, component, scale) ==
    IF f = "*=" THEN multiplication_assignment(component, scale)
    ELSE IF f = "+" THEN component
    ELSE IF f = "-" THEN Neg(component)
    ELSE division_assignment(component, scale)

\* transform(v, f): f applied to every component of v in index order
RECURSIVE transform_loop(_, _, _, _)
transform_loop(u, f, scale, i) ==
    IF i >= u.dimension THEN u
    ELSE transform_loop(vec_set(u, i, scale_lambda(f, vec_get(u, i), scale)), f, scale, i + 1)

transform(u, f, scale) == transform_loop(u, f, scale, 0)

\* v *= scale and v /= scale
vec_mul_scalar(u, scale) == transform(u, "*=", scale)

vec_div_scalar(u, scale) == transform(u, "/=", scale)

\* mat(columns...): columns_{columns...}
mat_columns(columns) ==
    [row_count |-> columns[1].dimension, column_count |-> Len(columns),
     columns_ |-> [c \in 0..(Len(columns) - 1) |-> columns[c + 1]]]

\* m / scale: a copy of m with every column divided by scale
mat_div_scalar(mm, scale) ==
    [mm EXCEPT !.columns_ = [c \in DOMAIN @ |-> vec_div_scalar(@[c], scale)]]

\* row_echelon_form(m): forward elimination, no row is ever exchanged
RECURSIVE ref_loop_k(_, _, _, _, _)
ref_loop_k(ref, i, j, scale, k) ==
    IF k >= ref.column_count THEN ref
    ELSE ref_loop_k(
            mat_set(ref, k, j,
                    subtraction_assignment(mat_get(ref, k, j),
                        multiplication_assignment(scale, mat_get(ref, k, i)))),
            i, j, scale, k + 1)

RECURSIVE ref_loop_j(_, _, _)
ref_loop_j_mutant(ref, i, j) ==
    IF j >= ref.row_count THEN ref
    ELSE ref_loop_j(
            ref_loop_k(ref, i, j,
                       IF mat_get(ref, i, i) = Zero THEN Zero
                       ELSE division_assignment(mat_get(ref, i, j), mat_get(ref, i, i)), i),
            i, j + 1)

ref_loop_j(ref, i, j) ==
    IF j >= ref.row_count THEN ref
    ELSE ref_loop_j(
            ref_loop_k(ref, i, j,
                       division_assignment(mat_get(ref, i, j), mat_get(ref, i, i)), i),
            i, j + 1)

RECURSIVE ref_loop_i(_, _)
ref_loop_i(ref, i) ==
    IF i >= ref.column_count THEN ref
    ELSE ref_loop_i(ref_loop_j(ref, i, i + 1), i + 1)

row_echelon_form_mutant(mm) == ref_loop_i(mm, 1)

row_echelon_form(mm) == ref_loop_i(mm, 0)

\* determinant(mat<2, 2, T>)
determinant2(mm) ==
    LET m0 == mm.columns_[0]
        m1 == mm.columns_[1]
    IN  subtraction_assignment(
            multiplication_assignment(vec_get(m0, 0), vec_get(m1, 1)),
            multiplication_assignment(vec_get(m0, 1), vec_get(m1, 0)))

Mul3(a, b, c) == multiplication_assignment(multiplication_assignment(a, b), c)

\* determinant(mat<3, 3, T>)
determinant3_mutant(mm) ==
    LET m00 == vec_get(mm.columns_[0], 0)
        m01 == vec_get(mm.columns_[0], 1)
        m02 == vec_get(mm.columns_[0], 2)
        m10 == vec_get(mm.columns_[1], 0)
        m11 == vec_get(mm.columns_[1], 1)
        m12 == vec_get(mm.columns_[1], 2)
        m20 == vec_get(mm.columns_[2], 0)
        m21 == vec_get(mm.columns_[2], 1)
        m22 == vec_get(mm.columns_[2], 2)
    IN  subtraction_assignment(subtraction_assignment(subtraction_assignment(
            addition_assignment(addition_assignment(
                Mul3(m02, m10, m21), Mul3(m00, m11, m22)), Mul3(m01, m12, m20)),
            Mul3(m01, m10, m22)), Mul3(m02, m11, m20)), Mul3(m00, m12, m20))

determinant3(mm) ==
    LET m00 == vec_get(mm.columns_[0], 0)
        m01 == vec_get(mm.columns_[0], 1)
        m02 == vec_get(mm.columns_[0], 2)
        m10 == vec_get(mm.columns_[1], 0)
        m11 == vec_get(mm.columns_[1], 1)
        m12 == vec_get(mm.columns_[1], 2)
        m20 == vec_get(mm.columns_[2], 0)
        m21 == vec_get(mm.columns_[2], 1)
        m22 == vec_get(mm.columns_[2], 2)
    IN  subtraction_assignment(subtraction_assignment(subtraction_assignment(
            addition_assignment(addition_assignment(
                Mul3(m02, m10, m21), Mul3(m00, m11, m22)), Mul3(m01, m12, m20)),
            Mul3(m01, m10, m22)), Mul3(m02, m11, m20)), Mul3(m00, m12, m21))

\* determinant(mat<N, N, T>): the product of the diagonal of the row echelon form
RECURSIVE determinantN_loop(_, _, _)
determinantN_loop(ref, det, i) ==
    IF i >= ref.row_count THEN det
    ELSE determinantN_loop(ref, multiplication_assignment(det, mat_get(ref, i, i)), i + 1)

determinantN(mm) == determinantN_loop(row_echelon_form(mm), One, 0)

\* overload resolution of determinant by the size of the matrix
determinant(mm) ==
    IF mm.row_count = 1 THEN mat_get(mm, 0, 0)
    ELSE IF mm.row_count = 2 THEN determinant2(mm)
    ELSE IF mm.row_count = 3 THEN determinant3(mm)
    ELSE determinantN(mm)

\* inverse(mat<2, 2, T>)
inverse2(mm) ==
    LET m00 == vec_get(mm.columns_[0], 0)
        m01 == vec_get(mm.columns_[0], 1)
        m10 == vec_get(mm.columns_[1], 0)
        m11 == vec_get(mm.columns_[1], 1)
        det == subtraction_assignment(multiplication_assignment(m00, m11),
                                      multiplication_assignment(m01, m11))
    IN  mat_div_scalar(
            mat_columns(<<vec_components(2, <<m11, Neg(m01)>>),
                          vec_components(2, <<Neg(m10), m00>>)>>),
            det)

\* inverse(mat<N, N, T>): Gauss-Jordan elimination on the pair (id, inv)
RECURSIVE inverse_normalize(_, _, _, _)
inverse_normalize(w, i, pivot, j) ==
    IF j >= w.id.column_count THEN w
    ELSE inverse_normalize(
            [id  |-> mat_set(w.id, j, i, division_assignment(mat_get(w.id, j, i), pivot)),
             inv |-> mat_set(w.inv, j, i, division_assignment(mat_get(w.inv, j, i), pivot))],
            i, pivot, j + 1)

RECURSIVE inverse_loop_k(_, _, _, _, _)
inverse_loop_k(w, i, j, scale, k) ==
    IF k >= w.id.column_count THEN w
    ELSE inverse_loop_k(
            [id  |-> mat_set(w.id, k, j,
                        subtraction_assignment(mat_get(w.id, k, j),
                            multiplication_assignment(scale, mat_get(w.id, k, i)))),
             inv |-> mat_set(w.inv, k, j,
                        subtraction_assignment(mat_get(w.inv, k, j),
                            multiplication_assignment(scale, mat_get(w.inv, k, i))))],
            i, j, scale, k + 1)

RECURSIVE inverse_loop_j(_, _, _)
inverse_loop_j(w, i, j) ==
    IF j >= w.id.row_count THEN w
    ELSE IF i = j THEN inverse_loop_j(w, i, j + 1)
    ELSE inverse_loop_j(inverse_loop_k(w, i, j, mat_get(w.id, i, j), 0), i, j + 1)

RECURSIVE inverse_loop_i(_, _)
inverse_loop_i(w, i) ==
    IF i >= w.id.column_count THEN w
    ELSE inverse_loop_i(
            inverse_loop_j(inverse_normalize(w, i, mat_get(w.id, i, i), 0), i, 0),
            i + 1)

inverseN(mm) ==
    inverse_loop_i([id |-> mm,
                    inv |-> mat_scalar(mm.row_count, mm.column_count, One).value], 0).inv

\* overload resolution of inverse by the size of the matrix
inverse(mm) ==
    IF mm.row_count = 1
    THEN mat_columns(<<vec_components(1, <<division_assignment(One, mat_get(mm, 0, 0))>>)>>)
    ELSE IF mm.row_count = 2 THEN inverse2(mm)
    ELSE inverseN(mm)

\* operator*(mat<N, M, T>, mat<M, K, T>): p[j, i] += lhs[k, i] * rhs[j, k]
RECURSIVE mat_mul_loop_k(_, _, _, _, _, _)
mat_mul_loop_k_mutant(p, lhs, rhs, i, j, k) ==
    IF k >= lhs.column_count THEN p
    ELSE mat_mul_loop_k(
            mat_set(p, j, i,
                    multiplication_assignment(mat_get(lhs, k, i), mat_get(rhs, j, k))),
            lhs, rhs, i, j, k + 1)

mat_mul_loop_k(p, lhs, rhs, i, j, k) ==
    IF k >= lhs.column_count THEN p
    ELSE mat_mul_loop_k(
            mat_set(p, j, i,
                    addition_assignment(mat_get(p, j, i),
                        multiplication_assignment(mat_get(lhs, k, i), mat_get(rhs, j, k)))),
            lhs, rhs, i, j, k + 1)

\* j < K, the number of columns of rhs and of the product p
RECURSIVE mat_mul_loop_j(_, _, _, _, _)
mat_mul_loop_j(p, lhs, rhs, i, j) ==
    IF j >= p.column_count THEN p
    ELSE mat_mul_loop_j(mat_mul_loop_k(p, lhs, rhs, i, j, 0), lhs, rhs, i, j + 1)

RECURSIVE mat_mul_loop_i(_, _, _, _)
mat_mul_loop_i(p, lhs, rhs, i) ==
    IF i >= lhs.row_count THEN p
    ELSE mat_mul_loop_i(mat_mul_loop_j(p, lhs, rhs, i, 0), lhs, rhs, i + 1)

mat_mul_mutant(lhs, rhs) ==
    mat_mul_loop_i(mat_scalar(lhs.row_count, rhs.column_count, One).value, lhs, rhs, 0)

mat_mul(lhs, rhs) ==
    mat_mul_loop_i(mat_default(lhs.row_count, rhs.column_count), lhs, rhs, 0)

\* operator*(mat<N, M, T>, vec<M, T>): p[i] += m[k, i] * v[k]
RECURSIVE mat_mul_vec_loop_k(_, _, _, _, _)
mat_mul_vec_loop_k(p, mm, u, i, k) ==
    IF k >= mm.column_count THEN p
    ELSE mat_mul_vec_loop_k(
            vec_set(p, i,
                    addition_assignment(vec_get(p, i),
                        multiplication_assignment(mat_get(mm, k, i), vec_get(u, k)))),
            mm, u, i, k + 1)

RECURSIVE mat_mul_vec_loop_i(_, _, _, _)
mat_mul_vec_loop_i(p, mm, u, i) ==
    IF i >= mm.row_count THEN p
    ELSE mat_mul_vec_loop_i(mat_mul_vec_loop_k(p, mm, u, i, 0), mm, u, i + 1)

mat_mul_vec(mm, u) == mat_mul_vec_loop_i(vec_default(mm.row_count), mm, u, 0)

NoOp == [op |-> "none", status |-> "ok"]

(***************************************************************************)
(* Component access on a vector.                                           *)
(***************************************************************************)
InitVec ==
    /\ v \in {vec_default(N) : N \in 1..4}
    /\ m = mat_default(1, 1)
    /\ nw = 0
    /\ out = NoOp

\* x = v[i]
VecRead(i) ==
    /\ out' = IF subscript(v.dimension, i) = OutOfRange
              THEN [op |-> "vec_read", i |-> i, status |-> OutOfRange, before |-> v]
              ELSE [op |-> "vec_read", i |-> i, status |-> "ok",
                    value |-> vec_get(v, i), before |-> v]
    /\ UNCHANGED <<v, m, nw>>

\* v[i] = x
VecWrite(i, val) ==
    /\ IF subscript(v.dimension, i) = OutOfRange
       THEN /\ out' = [op |-> "vec_write", i |-> i, status |-> OutOfRange, before |-> v]
            /\ v' = v
       ELSE /\ out' = [op |-> "vec_write", i |-> i, status |-> "ok",
                       value |-> val, before |-> v]
            /\ v' = vec_set(v, i, val)
    /\ UNCHANGED <<m, nw>>

NextVec ==
    \/ \E i \in 0..MaxIndex : VecRead(i)
    \/ \E i \in 0..MaxIndex, val \in Vals : VecWrite(i, val)

SpecVec == InitVec /\ [][NextVec]_vars

Names == <<"x", "y", "z", "w">>

\* C1: for every dimension N in 1..4, v[i] with i < N returns the i-th
\* component, and v[i] with i >= N raises out_of_range, returns no
\* component, and leaves every component of v unchanged.
C1_CheckedSubscript ==
    out.op = "vec_read" =>
        /\ v.dimension \in 1..4
        /\ out.i < v.dimension =>
              /\ out.status = "ok"
              /\ out.value = out.before[Names[out.i + 1]]
              /\ out.value # burn_t
        /\ out.i >= v.dimension =>
              /\ out.status = OutOfRange
              /\ "value" \notin DOMAIN out
        /\ v = out.before

C1_Witness ==
    /\ out.op = "vec_read"
    /\ out.i >= v.dimension
    /\ out.i <= 3
    /\ out.status = OutOfRange
    /\ v.x # Zero

\* C2: for every N in 1..4 and valid i < N, after v[i] = x reading v[i]
\* returns exactly x, the named member for index i holds x, and every other
\* component of v is unchanged.
C2_WriteRoundTrip ==
    (out.op = "vec_write" /\ out.i < v.dimension) =>
        /\ out.status = "ok"
        /\ vec_get(v, out.i) = out.value
        /\ v[Names[out.i + 1]] = out.value
        /\ \A k \in 1..4 : k # out.i + 1 => v[Names[k]] = out.before[Names[k]]
        /\ v.dimension = out.before.dimension

C2_Witness ==
    /\ out.op = "vec_write"
    /\ out.i = 2
    /\ v.dimension = 3
    /\ out.before.z # out.value
    /\ v.x # Zero
    /\ v.z = out.value

(***************************************************************************)
(* Construction of a matrix from a scalar and element access.              *)
(***************************************************************************)
\* a matrix has at most MaxCols columns
MaxCols == 4

\* at most MaxElemWrites element assignments are made to a matrix
MaxElemWrites == 1

\* a program that has called std::terminate takes no further step
Running == out.status # Terminate

\* the operations on a matrix are pure: each is applied to the matrix the
\* construction and the assignments have built, and its result is looked at
\* before the next call
Idle == Running /\ out.op \in {"none", "mat_assign", "mat_scalar"}

InitCtor ==
    /\ v = vec_default(1)
    /\ m \in {mat_default(R, C) : R \in 1..4, C \in 1..MaxCols}
    /\ nw = 0
    /\ out = NoOp

\* m = mat<R, C, T>(scale)
MatScalarCtor(scale) ==
    /\ Idle
    /\ LET res == mat_scalar(m.row_count, m.column_count, scale)
       IN  /\ m' = IF res.status = "ok" THEN res.value ELSE m
           /\ out' = IF res.status = "ok"
                     THEN [op |-> "mat_scalar", scale |-> scale, status |-> "ok"]
                     ELSE [op |-> "mat_scalar", scale |-> scale,
                           status |-> res.status, raised |-> res.raised]
    /\ nw' = 0
    /\ UNCHANGED v

\* x = m[column, row]
MatElementRead(column, row) ==
    /\ Idle
    /\ column < m.column_count
    /\ out' = IF mat_subscript(m, column, row) = OutOfRange
              THEN [op |-> "mat_element", column |-> column, row |-> row,
                    status |-> Terminate, raised |-> OutOfRange, before |-> m]
              ELSE [op |-> "mat_element", column |-> column, row |-> row,
                    status |-> "ok", value |-> mat_get(m, column, row), before |-> m]
    /\ UNCHANGED <<v, m, nw>>

\* m[column, row] = val
MatElementWrite(column, row, val, limit) ==
    /\ Idle
    /\ nw < limit
    /\ column < m.column_count
    /\ IF mat_subscript(m, column, row) = OutOfRange
       THEN /\ out' = [op |-> "mat_element", column |-> column, row |-> row,
                       status |-> Terminate, raised |-> OutOfRange, before |-> m]
            /\ UNCHANGED <<m, nw>>
       ELSE /\ out' = [op |-> "mat_assign", status |-> "ok"]
            /\ m' = mat_set(m, column, row, val)
            /\ nw' = nw + 1
    /\ UNCHANGED v

NextCtor ==
    \/ \E scale \in Vals : MatScalarCtor(scale)
    \/ \E column \in 0..(MaxCols - 1), row \in 0..MaxIndex : MatElementRead(column, row)
    \/ \E column \in 0..(MaxCols - 1), row \in 0..MaxIndex, val \in Vals :
          MatElementWrite(column, row, val, MaxElemWrites)

SpecCtor == InitCtor /\ [][NextCtor]_vars

\* C7: for every shape R x C, non-square included, constructing mat<R,C,T>
\* from a scalar s completes without a range error and yields the matrix
\* whose entry (column i, row i) is s for i < min(R, C), every other entry
\* being zero.
C7_ScalarCtorDiagonal ==
    out.op = "mat_scalar" =>
        /\ out.status = "ok"
        /\ \A c \in 0..(m.column_count - 1), r \in 0..(m.row_count - 1) :
              m.columns_[c][Names[r + 1]] = IF c = r THEN out.scale ELSE Zero

Entry(mm, c, r) == mm.columns_[c][Names[r + 1]]

RemoveAt(seq, p) == [k \in 1..(Len(seq) - 1) |-> IF k < p THEN seq[k] ELSE seq[k + 1]]

\* the cofactor expansion along row r of the minor on rows r.. and columns cols
RECURSIVE Cofactor(_, _, _)
RECURSIVE CofactorSum(_, _, _, _)
CofactorSum(mm, r, cols, p) ==
    IF p > Len(cols) THEN Zero
    ELSE LET term == multiplication_assignment(Entry(mm, cols[p], r),
                                               Cofactor(mm, r + 1, RemoveAt(cols, p)))
         IN  addition_assignment(IF p % 2 = 1 THEN term ELSE Neg(term),
                                 CofactorSum(mm, r, cols, p + 1))

Cofactor(mm, r, cols) == IF cols = <<>> THEN One ELSE CofactorSum(mm, r, cols, 1)

Leibniz(mm) == Cofactor(mm, 0, [k \in 1..mm.column_count |-> k - 1])

\* the leading principal minor of order k
LeadingMinor(mm, k) ==
    Leibniz([row_count |-> k, column_count |-> k,
             columns_ |-> [c \in 0..(k - 1) |-> mm.columns_[c]]])

\* no pivot met by an elimination without row exchanges is zero
PivotsNonzero(mm) == \A k \in 1..(mm.row_count - 1) : LeadingMinor(mm, k) # Zero

IsIdentity(mm) ==
    \A c \in 0..(mm.column_count - 1), r \in 0..(mm.row_count - 1) :
        Entry(mm, c, r) = IF c = r THEN One ELSE Zero

RowsEqual(mm, r1, r2) ==
    \A c \in 0..(mm.column_count - 1) : Entry(mm, c, r1) = Entry(mm, c, r2)

(***************************************************************************)
(* Inverse of a square matrix.                                             *)
(***************************************************************************)
\* at most MaxWrites element assignments are made to a matrix that is inverted
MaxWrites == 3

\* at most MaxDetWrites element assignments are made to a matrix whose
\* determinant is taken
MaxDetWrites == 2

Identities(sizes) == {mat_scalar(N, N, One).value : N \in sizes}

InitInv ==
    /\ v = vec_default(1)
    /\ m \in Identities(2..3)
    /\ nw = 0
    /\ out = NoOp

\* inv = inverse(m)
MatInverse ==
    /\ Idle
    /\ m.row_count = m.column_count
    /\ LET inv == inverse(m)
       IN  out' = [op |-> "inverse", status |-> "ok", value |-> inv,
                   left |-> mat_mul(inv, m), right |-> mat_mul(m, inv)]
    /\ UNCHANGED <<v, m, nw>>

\* an assignment of a new value to an entry that still holds the value the
\* construction gave it
SquareWrite(limit) ==
    \E column \in 0..(m.column_count - 1), row \in 0..(m.row_count - 1), val \in Vals :
        /\ mat_get(m, column, row) = IF column = row THEN One ELSE Zero
        /\ val # mat_get(m, column, row)
        /\ MatElementWrite(column, row, val, limit)

NextInv ==
    \/ SquareWrite(MaxWrites)
    \/ MatInverse

SpecInv == InitInv /\ [][NextInv]_vars

\* C3: for every nonsingular 2x2 matrix A, inverse(A) * A is the identity
\* and inverse(A) is the adjugate divided by m00*m11 - m01*m10.
C3_Inverse2 ==
    (out.op = "inverse" /\ m.row_count = 2 /\ Leibniz(m) # Zero) =>
        /\ IsIdentity(out.left)
        /\ LET det == Leibniz(m)
           IN  /\ Entry(out.value, 0, 0) = division_assignment(Entry(m, 1, 1), det)
               /\ Entry(out.value, 0, 1) = division_assignment(Neg(Entry(m, 0, 1)), det)
               /\ Entry(out.value, 1, 0) = division_assignment(Neg(Entry(m, 1, 0)), det)
               /\ Entry(out.value, 1, 1) = division_assignment(Entry(m, 0, 0), det)

\* C4: for every nonsingular NxN matrix A with N >= 3, the Gauss-Jordan
\* inverse satisfies inverse(A) * A == identity and A * inverse(A) == identity.
C4_InverseN ==
    (out.op = "inverse" /\ m.row_count >= 3 /\ Leibniz(m) # Zero) =>
        /\ IsIdentity(out.left)
        /\ IsIdentity(out.right)

\* the Gauss-Jordan inverse is a two-sided inverse whenever no pivot it
\* divides by is zero
InverseN_NonzeroPivots ==
    (out.op = "inverse" /\ m.row_count >= 3 /\ Leibniz(m) # Zero /\ PivotsNonzero(m)) =>
        /\ IsIdentity(out.left)
        /\ IsIdentity(out.right)

\* the closed form is right for every nonsingular diagonal 2x2 matrix
Inverse2_Diagonal ==
    (out.op = "inverse" /\ m.row_count = 2 /\ Leibniz(m) # Zero
        /\ Entry(m, 0, 1) = Zero /\ Entry(m, 1, 0) = Zero) =>
        IsIdentity(out.left)

(***************************************************************************)
(* Determinant of a square matrix.                                         *)
(***************************************************************************)
InitDet ==
    /\ v = vec_default(1)
    /\ m \in Identities(2..4)
    /\ nw = 0
    /\ out = NoOp

\* det = determinant(m)
MatDeterminant ==
    /\ Idle
    /\ m.row_count = m.column_count
    /\ out' = [op |-> "determinant", status |-> "ok", value |-> determinant(m)]
    /\ UNCHANGED <<v, m, nw>>

NextDet ==
    \/ SquareWrite(MaxDetWrites)
    \/ MatDeterminant

SpecDet == InitDet /\ [][NextDet]_vars

HasEqualRows(mm) ==
    \E r1, r2 \in 0..(mm.row_count - 1) : r1 < r2 /\ RowsEqual(mm, r1, r2)

\* C5: for square matrices of size 2x2, 3x3 and 4x4 the determinant of the
\* identity is 1 and the determinant of a matrix with two equal rows is 0.
C5_DeterminantSpecialCases ==
    (out.op = "determinant" /\ m.row_count \in 2..4) =>
        /\ IsIdentity(m) => out.value = One
        /\ HasEqualRows(m) => out.value = Zero

\* C6: for a 4x4 matrix whose elimination pivots are all nonzero the
\* determinant, the product of the diagonal of the row echelon form, equals
\* the cofactor-expansion determinant; the 3x3 closed form equals the
\* cofactor expansion for every 3x3 matrix.
C6_DeterminantIsLeibniz ==
    out.op = "determinant" =>
        /\ (m.row_count = 4 /\ PivotsNonzero(m)) => out.value = Leibniz(m)
        /\ m.row_count = 3 => out.value = Leibniz(m)

C6_Witness ==
    /\ out.op = "determinant"
    /\ m.row_count = 4
    /\ PivotsNonzero(m)
    /\ Entry(m, 0, 1) # Zero
    /\ Entry(m, 1, 0) # Zero
    /\ out.value = T(2)

(***************************************************************************)
(* Matrix multiplication.                                                  *)
(***************************************************************************)
\* the matrices multiplied have at most MulDim rows and MulDim columns
MulDim == 2

\* the factors of a product hold at most MaxMulWrites assigned entries in all
MaxMulWrites == 2

\* the factors of an associated product hold one assigned entry fewer
MaxAssocWrites == MaxMulWrites - 1

\* the matrices a construction gives: mat<R, C, T>() and, where the
\* constructor from a scalar completes, mat<R, C, T>(1)
Constructed(R, C) ==
    LET res == mat_scalar(R, C, One)
    IN  IF res.status = "ok" THEN {mat_default(R, C), res.value}
        ELSE {mat_default(R, C)}

\* the matrices a construction and at most k assignments of a nonzero value
\* to an entry that is still zero give
RECURSIVE Operands(_, _, _)
Operands(R, C, k) ==
    IF k <= 0 THEN Constructed(R, C)
    ELSE LET S == Operands(R, C, k - 1)
         IN  S \cup {mat_set(t[1], t[2], t[3], t[4]) :
                        t \in {a \in S \X (0..(C - 1)) \X (0..(R - 1)) \X (Vals \ {Zero}) :
                                  mat_get(a[1], a[2], a[3]) = Zero}}

\* the vectors a construction from N components, at most k of them nonzero,
\* gives
VecOperands(N, k) ==
    {vec_components(N, comps) :
        comps \in {f \in [1..N -> Vals] : Cardinality({i \in 1..N : f[i] # Zero}) <= k}}

\* the matrix with R rows and C columns whose only nonzero entry is a one at
\* (column c, row r)
Unit(R, C, c, r) == mat_set(mat_default(R, C), c, r, One)

InitMul ==
    /\ v = vec_default(1)
    /\ m \in UNION {Constructed(R, C) : R \in 1..MulDim, C \in 1..MulDim}
    /\ nw = 0
    /\ out = NoOp

\* an assignment of a nonzero value to an entry that is still zero
MulWrite(limit) ==
    \E column \in 0..(m.column_count - 1), row \in 0..(m.row_count - 1), val \in Vals :
        /\ mat_get(m, column, row) = Zero
        /\ val # Zero
        /\ MatElementWrite(column, row, val, limit)

\* p = m * rhs
MatMul ==
    /\ Idle
    /\ \E K \in 1..MulDim :
          \E rhs \in Operands(m.column_count, K, MaxMulWrites - nw) :
              out' = [op |-> "mat_mul", status |-> "ok", rhs |-> rhs,
                      value |-> mat_mul(m, rhs)]
    /\ UNCHANGED <<v, m, nw>>

\* p = mat<N, N, T>(1) * m and q = m * mat<M, M, T>(1)
MatMulIdentity ==
    /\ Idle
    /\ out' = [op |-> "mat_mul_identity", status |-> "ok",
               left |-> mat_mul(mat_scalar(m.row_count, m.row_count, One).value, m),
               right |-> mat_mul(m, mat_scalar(m.column_count, m.column_count, One).value)]
    /\ UNCHANGED <<v, m, nw>>

\* p = m * u
MatMulVec ==
    /\ Idle
    /\ \E u \in VecOperands(m.column_count, MaxMulWrites - nw) :
          out' = [op |-> "mat_mul_vec", status |-> "ok", u |-> u,
                  value |-> mat_mul_vec(m, u)]
    /\ UNCHANGED <<v, m, nw>>

\* p = (m * B) * C and q = m * (B * C)
MatMulAssociate ==
    /\ Idle
    /\ \E K \in 1..MulDim, L \in 1..MulDim, b \in 0..(MaxAssocWrites - nw) :
          \E B \in Operands(m.column_count, K, b),
             C \in Operands(K, L, MaxAssocWrites - nw - b) :
              out' = [op |-> "mat_mul_associate", status |-> "ok", B |-> B, C |-> C,
                      left |-> mat_mul(mat_mul(m, B), C),
                      right |-> mat_mul(m, mat_mul(B, C))]
    /\ UNCHANGED <<v, m, nw>>

\* p = m * B and q = B * m
MatMulCommute ==
    /\ Idle
    /\ m.row_count = m.column_count
    /\ \E c \in 0..(m.column_count - 1), r \in 0..(m.row_count - 1) :
          LET B == Unit(m.row_count, m.column_count, c, r)
          IN  out' = [op |-> "mat_mul_commute", status |-> "ok", B |-> B,
                      ab |-> mat_mul(m, B), ba |-> mat_mul(B, m)]
    /\ UNCHANGED <<v, m, nw>>

NextMul ==
    \/ MulWrite(MaxMulWrites)
    \/ MatMul
    \/ MatMulIdentity
    \/ MatMulVec

SpecMul == InitMul /\ [][NextMul]_vars

NextAssoc ==
    \/ MulWrite(MaxAssocWrites)
    \/ MatMulAssociate
    \/ MatMulCommute

SpecAssoc == InitMul /\ [][NextAssoc]_vars

\* the sum over k' in k..M-1 of lhs[k', i] * rhs[j, k']
RECURSIVE ProductSum(_, _, _, _, _)
ProductSum(lhs, rhs, i, j, k) ==
    IF k >= lhs.column_count THEN Zero
    ELSE addition_assignment(
            multiplication_assignment(Entry(lhs, k, i), Entry(rhs, j, k)),
            ProductSum(lhs, rhs, i, j, k + 1))

\* row i of the sum over k' in k..M-1 of u[k'] times column k' of mm
RECURSIVE ColumnSum(_, _, _, _)
ColumnSum(mm, u, i, k) ==
    IF k >= mm.column_count THEN Zero
    ELSE addition_assignment(
            multiplication_assignment(u[Names[k + 1]], Entry(mm, k, i)),
            ColumnSum(mm, u, i, k + 1))

\* C9: for lhs with N rows and M columns and rhs with M rows and K columns,
\* lhs * rhs has N rows and K columns and its entry (column j, row i) is the
\* sum over k < M of lhs[k, i] * rhs[j, k]; the product with the identity on
\* either side returns the other operand; m * v is the sum over k of v[k]
\* times column k of m.
C9_MatrixProduct ==
    /\ out.op = "mat_mul" =>
          /\ out.value.row_count = m.row_count
          /\ out.value.column_count = out.rhs.column_count
          /\ DOMAIN out.value.columns_ = 0..(out.rhs.column_count - 1)
          /\ \A j \in 0..(out.rhs.column_count - 1) :
                /\ out.value.columns_[j].dimension = m.row_count
                /\ \A i \in 0..(m.row_count - 1) :
                      Entry(out.value, j, i) = ProductSum(m, out.rhs, i, j, 0)
    /\ out.op = "mat_mul_identity" =>
          /\ out.left = m
          /\ out.right = m
    /\ out.op = "mat_mul_vec" =>
          /\ out.value.dimension = m.row_count
          /\ \A i \in 0..(m.row_count - 1) :
                out.value[Names[i + 1]] = ColumnSum(m, out.u, i, 0)

C9_Witness ==
    /\ out.op = "mat_mul"
    /\ m.row_count = 2
    /\ m.column_count = 2
    /\ out.rhs.column_count = 1
    /\ Entry(m, 0, 0) = One
    /\ Entry(m, 1, 0) = One
    /\ Entry(out.rhs, 0, 0) = One
    /\ Entry(out.rhs, 0, 1) = One
    /\ Entry(out.value, 0, 0) = T(2)

ZeroMat(mm) ==
    \A c \in 0..(mm.column_count - 1), r \in 0..(mm.row_count - 1) : Entry(mm, c, r) = Zero

\* the 2x2 matrix whose only nonzero entry is a one at (column c, row r)
Unit2(c, r) == Unit(2, 2, c, r)

C10_NonCommutingPair ==
    /\ out.op = "mat_mul_commute"
    /\ m = Unit2(0, 1)
    /\ out.B = Unit2(1, 0)
    /\ out.ab # out.ba

(***************************************************************************)
(* Transpose.                                                              *)
(***************************************************************************)
Undefined == "undefined"

\* t[column, row] = val inside a noexcept function: the array subscript
\* columns_[column] is undefined for column >= C, and an out_of_range leaving
\* vec::operator[](row) ends the program
mat_assign(res, column, row, val) ==
    IF res.status # "ok" THEN res
    ELSE IF column >= res.value.column_count
         THEN [status |-> Undefined, value |-> res.value]
    ELSE IF mat_subscript(res.value, column, row) = OutOfRange
         THEN [status |-> Terminate, raised |-> OutOfRange, value |-> res.value]
    ELSE [status |-> "ok", value |-> mat_set(res.value, column, row, val)]

\* transpose(m): t[j, i] = m[i, j] for every i < column_count, j < row_count
RECURSIVE transpose_loop_j(_, _, _, _)
transpose_loop_j(res, mm, i, j) ==
    IF j >= mm.row_count THEN res
    ELSE transpose_loop_j(mat_assign(res, j, i, mat_get(mm, i, j)), mm, i, j + 1)

RECURSIVE transpose_loop_i(_, _, _)
transpose_loop_i(res, mm, i) ==
    IF i >= mm.column_count THEN res
    ELSE transpose_loop_i(transpose_loop_j(res, mm, i, 0), mm, i + 1)

transpose_mutant(mm) ==
    transpose_loop_i([status |-> "ok", value |-> mat_default(mm.row_count, mm.column_count)],
                     mm, 0)

transpose(mm) ==
    transpose_loop_i([status |-> "ok", value |-> mat_default(mm.column_count, mm.row_count)],
                     mm, 0)

\* t = transpose(m) and tt = transpose(t)
MatTranspose ==
    /\ Idle
    /\ LET t == transpose(m)
       IN  out' = IF t.status = "ok"
                  THEN [op |-> "transpose", status |-> "ok", value |-> t.value,
                        twice |-> transpose(t.value)]
                  ELSE [op |-> "transpose", status |-> t.status, value |-> t.value]
    /\ UNCHANGED <<v, m, nw>>

NextTranspose ==
    \/ MulWrite(MaxMulWrites)
    \/ MatTranspose

SpecTranspose == InitMul /\ [][NextTranspose]_vars

\* C11: for every R x C matrix A, transpose(A) has C rows and R columns, its
\* entry (column j, row i) is the entry (column i, row j) of A for all i < C
\* and j < R, no index used is out of bounds, and transpose(transpose(A)) is A.
C11_Transpose ==
    out.op = "transpose" =>
        /\ out.status = "ok"
        /\ out.value.row_count = m.column_count
        /\ out.value.column_count = m.row_count
        /\ DOMAIN out.value.columns_ = 0..(m.row_count - 1)
        /\ \A j \in 0..(m.row_count - 1) :
              /\ out.value.columns_[j].dimension = m.column_count
              /\ \A i \in 0..(m.column_count - 1) :
                    Entry(out.value, j, i) = Entry(m, i, j)
        /\ out.twice.status = "ok"
        /\ out.twice.value = m

C11_Witness ==
    /\ out.op = "transpose"
    /\ m.row_count = 1
    /\ m.column_count = 2
    /\ Entry(m, 0, 0) = One
    /\ Entry(m, 1, 0) = T(-1)
    /\ Entry(out.value, 0, 1) = T(-1)
    /\ out.twice.value = m

(***************************************************************************)
(* Row echelon form.                                                       *)
(***************************************************************************)
\* mat{columns...} for the N x N permutation matrix that exchanges rows 0 and 1
Exchange01(N) ==
    mat_columns([c \in 1..N |->
        vec_components(N, [r \in 1..N |->
            IF (c <= 2 /\ r <= 2 /\ c # r) \/ (c > 2 /\ c = r) THEN One ELSE Zero])])

InitRef ==
    /\ v = vec_default(1)
    /\ m \in Identities(2..4) \cup {Exchange01(N) : N \in 2..4}
    /\ nw = 0
    /\ out = NoOp

\* ref = row_echelon_form(m) and det = determinant(m)
MatRowEchelon ==
    /\ Idle
    /\ m.row_count = m.column_count
    /\ out' = [op |-> "row_echelon_form", status |-> "ok", before |-> m,
               value |-> row_echelon_form(m), det |-> determinant(m)]
    /\ UNCHANGED <<v, m, nw>>

NextRef ==
    \/ SquareWrite(MaxDetWrites)
    \/ MatRowEchelon

SpecRef == InitRef /\ [][NextRef]_vars

\* row 0 of a and row 0 of b are equal
RowsEqualAcross(a, b) ==
    \A c \in 0..(a.column_count - 1) : Entry(a, c, 0) = Entry(b, c, 0)

\* some entry of mm is not a finite value
HasNaN(mm) ==
    \E c \in 0..(mm.column_count - 1), r \in 0..(mm.row_count - 1) : IsNaN(Entry(mm, c, r))

\* C12: for a square matrix m whose pivots met during elimination are all
\* nonzero, row_echelon_form(m) has a zero at every (column c, row r) with
\* r > c, its row 0 is row 0 of m, and m is not modified.
C12_RowEchelonUpperTriangular ==
    (out.op = "row_echelon_form" /\ PivotsNonzero(out.before)) =>
        /\ \A c \in 0..(m.column_count - 1), r \in 0..(m.row_count - 1) :
              r > c => Entry(out.value, c, r) = Zero
        /\ RowsEqualAcross(out.value, out.before)
        /\ ~HasNaN(out.value)
        /\ m = out.before

C12_Witness ==
    /\ out.op = "row_echelon_form"
    /\ m.row_count = 3
    /\ PivotsNonzero(m)
    /\ Entry(m, 0, 1) # Zero
    /\ Entry(m, 1, 0) # Zero
    /\ Entry(out.value, 0, 1) = Zero
    /\ Entry(out.value, 1, 1) = T(2)

\* C13: row_echelon_form never exchanges rows: when a pivot is zero while a
\* row below it remains, the step divides by zero, so the result holds a
\* value that is not finite, also for a nonsingular input such as a
\* permutation matrix; for N > 3 the determinant inherits that value.
C13_ZeroPivotDivides ==
    (out.op = "row_echelon_form" /\ ~PivotsNonzero(m)) =>
        /\ HasNaN(out.value)
        /\ m.row_count > 3 => IsNaN(out.det)

C13_Witness ==
    /\ out.op = "row_echelon_form"
    /\ m = Exchange01(4)
    /\ Leibniz(m) = T(-1)
    /\ IsNaN(Entry(out.value, 0, 1))
    /\ IsNaN(out.det)

(***************************************************************************)
(* Compound assignments and the operators built on them.                   *)
(***************************************************************************)
\* the functors of meta: lhs += rhs, lhs -= rhs, lhs *= rhs, lhs /= rhs; rhs is
\* taken by reference to const
assignment_functor(f, lhs, rhs) ==
    IF f = "+=" THEN addition_assignment(lhs, rhs)
    ELSE IF f = "-=" THEN subtraction_assignment(lhs, rhs)
    ELSE IF f = "*=" THEN multiplication_assignment(lhs, rhs)
    ELSE division_assignment(lhs, rhs)

\* zip_transform(lhs, rhs, f): f(lhs[i], rhs[i]) for every i < N; the pair of
\* operands after the loop, and the reference returned
RECURSIVE zip_transform_loop(_, _, _)
zip_transform_loop_mutant(mem, f, i) ==
    IF i >= mem.lhs.dimension THEN mem
    ELSE zip_transform_loop(
            [mem EXCEPT !.lhs = vec_set(@, i, assignment_functor(f, vec_get(@, i),
                                                                 vec_get(mem.rhs, i))),
                        !.rhs = vec_set(@, i, vec_get(mem.lhs, i))],
            f, i + 1)

zip_transform_loop(mem, f, i) ==
    IF i >= mem.lhs.dimension THEN mem
    ELSE zip_transform_loop(
            [mem EXCEPT !.lhs = vec_set(@, i, assignment_functor(f, vec_get(@, i),
                                                                 vec_get(mem.rhs, i)))],
            f, i + 1)

zip_transform(lhs, rhs, f) ==
    zip_transform_loop([lhs |-> lhs, rhs |-> rhs, ret |-> "lhs"], f, 0)

\* operator+=, -=, *=, /= (vec&, vec const&)
vec_compound(lhs, rhs, f) == zip_transform(lhs, rhs, f)

\* operator+, -, *, / (vec const&, vec const&): tmp{lhs}; return tmp op= rhs
vec_binary(lhs, rhs, f) ==
    LET tmp == lhs
    IN  [lhs |-> lhs, rhs |-> rhs, value |-> vec_compound(tmp, rhs, f).lhs]

\* operator*=, /= (vec&, value_type const&)
vec_compound_scalar(u, scale, f) ==
    [lhs |-> transform(u, f, scale), rhs |-> scale, ret |-> "lhs"]

\* operator*, / (vec const&, value_type const&)
vec_binary_scalar(u, scale, f) ==
    LET tmp == u
    IN  [lhs |-> u, rhs |-> scale, value |-> vec_compound_scalar(tmp, scale, f).lhs]

\* operator+ (vec const&) and operator- (vec const&)
vec_unary(u, f) ==
    LET tmp == u
    IN  [lhs |-> u, value |-> transform(tmp, f, Zero)]

\* operator+=, -= (mat&, mat const&): lhs[i] += rhs[i] for every i < C
RECURSIVE mat_compound_loop(_, _, _)
mat_compound_loop(mem, f, i) ==
    IF i >= mem.lhs.column_count THEN mem
    ELSE LET col == vec_compound(mem.lhs.columns_[i], mem.rhs.columns_[i], f)
         IN  mat_compound_loop(
                [mem EXCEPT !.lhs.columns_[i] = col.lhs, !.rhs.columns_[i] = col.rhs],
                f, i + 1)

\* operator*= (mat&, mat const&): lhs = lhs * rhs
mat_compound(lhs, rhs, f) ==
    IF f = "*=" THEN [lhs |-> mat_mul(lhs, rhs), rhs |-> rhs, ret |-> "lhs"]
    ELSE mat_compound_loop([lhs |-> lhs, rhs |-> rhs, ret |-> "lhs"], f, 0)

\* operator+, -, * (mat const&, mat const&)
mat_binary(lhs, rhs, f) ==
    IF f = "*=" THEN [lhs |-> lhs, rhs |-> rhs, value |-> mat_mul(lhs, rhs)]
    ELSE LET tmp == lhs
         IN  [lhs |-> lhs, rhs |-> rhs, value |-> mat_compound(tmp, rhs, f).lhs]

\* operator*=, /= (mat&, value_type const&): for_each column, column op= scale
RECURSIVE mat_compound_scalar_loop(_, _, _, _)
mat_compound_scalar_loop(mm, scale, f, i) ==
    IF i >= mm.column_count THEN mm
    ELSE mat_compound_scalar_loop(
            [mm EXCEPT !.columns_[i] = vec_compound_scalar(@, scale, f).lhs],
            scale, f, i + 1)

mat_compound_scalar(mm, scale, f) ==
    [lhs |-> mat_compound_scalar_loop(mm, scale, f, 0), rhs |-> scale, ret |-> "lhs"]

\* operator*, / (mat const&, value_type const&)
mat_binary_scalar(mm, scale, f) ==
    LET tmp == mm
    IN  [lhs |-> mm, rhs |-> scale, value |-> mat_compound_scalar(tmp, scale, f).lhs]

\* operator+ (mat const&) and operator- (mat const&): column = +column
RECURSIVE mat_unary_loop(_, _, _)
mat_unary_loop(tmp, f, i) ==
    IF i >= tmp.column_count THEN tmp
    ELSE mat_unary_loop([tmp EXCEPT !.columns_[i] = vec_unary(@, f).value], f, i + 1)

mat_unary(mm, f) ==
    LET tmp == mm
    IN  [lhs |-> mm, value |-> mat_unary_loop(tmp, f, 0)]

\* the columns of m other than column c are those of before
OtherColumnsKept(before, c) ==
    /\ m.row_count = before.row_count
    /\ m.column_count = before.column_count
    /\ DOMAIN m.columns_ = DOMAIN before.columns_
    /\ \A k \in DOMAIN before.columns_ : k # c => m.columns_[k] = before.columns_[k]

\* m[c] op= rhs and m[c] op rhs for a vector rhs
VecCompound(f) ==
    /\ Idle
    /\ \E c \in 0..(m.column_count - 1) :
          \E rhs \in VecOperands(m.row_count, MaxAssocWrites - nw) :
              LET res == vec_compound(m.columns_[c], rhs, f)
              IN  /\ m' = [m EXCEPT !.columns_[c] = res.lhs]
                  /\ out' = [op |-> "vec_compound", status |-> "ok", f |-> f, column |-> c,
                             before |-> m, rhs |-> rhs, rhs_after |-> res.rhs,
                             ret |-> res.ret,
                             binary |-> vec_binary(m.columns_[c], rhs, f)]
    /\ UNCHANGED <<v, nw>>

\* m[c] op= scale and m[c] op scale, for op in *, /
VecScalarCompound(f) ==
    /\ Idle
    /\ \E c \in 0..(m.column_count - 1), scale \in Vals :
          LET res == vec_compound_scalar(m.columns_[c], scale, f)
          IN  /\ m' = [m EXCEPT !.columns_[c] = res.lhs]
              /\ out' = [op |-> "vec_compound_scalar", status |-> "ok", f |-> f,
                         column |-> c, before |-> m, rhs |-> scale, rhs_after |-> res.rhs,
                         ret |-> res.ret,
                         binary |-> vec_binary_scalar(m.columns_[c], scale, f)]
    /\ UNCHANGED <<v, nw>>

\* m op= rhs and m op rhs for a matrix rhs; *= takes square matrices
MatCompound(f) ==
    /\ Idle
    /\ f = "*=" => m.row_count = m.column_count
    /\ \E rhs \in Operands(m.row_count, m.column_count, MaxAssocWrites - nw) :
          LET res == mat_compound(m, rhs, f)
          IN  /\ m' = res.lhs
              /\ out' = [op |-> "mat_compound", status |-> "ok", f |-> f,
                         before |-> m, rhs |-> rhs, rhs_after |-> res.rhs, ret |-> res.ret,
                         binary |-> mat_binary(m, rhs, f)]
    /\ UNCHANGED <<v, nw>>

\* m op= scale and m op scale, for op in *, /
MatScalarCompound(f) ==
    /\ Idle
    /\ \E scale \in Vals :
          LET res == mat_compound_scalar(m, scale, f)
          IN  /\ m' = res.lhs
              /\ out' = [op |-> "mat_compound_scalar", status |-> "ok", f |-> f,
                         before |-> m, rhs |-> scale, rhs_after |-> res.rhs, ret |-> res.ret,
                         binary |-> mat_binary_scalar(m, scale, f)]
    /\ UNCHANGED <<v, nw>>

\* +m, -m, +m[c] and -m[c]
UnaryOperators ==
    /\ Idle
    /\ \E c \in 0..(m.column_count - 1) :
          out' = [op |-> "unary", status |-> "ok", column |-> c, before |-> m,
                  vec_plus |-> vec_unary(m.columns_[c], "+"),
                  vec_minus |-> vec_unary(m.columns_[c], "-"),
                  mat_plus |-> mat_unary(m, "+"),
                  mat_minus |-> mat_unary(m, "-")]
    /\ UNCHANGED <<v, m, nw>>

NextFrame ==
    \/ MulWrite(MaxAssocWrites)
    \/ \E f \in {"+=", "-=", "*=", "/="} : VecCompound(f)
    \/ \E f \in {"*=", "/="} : VecScalarCompound(f)
    \/ \E f \in {"+=", "-=", "*="} : MatCompound(f)
    \/ \E f \in {"*=", "/="} : MatScalarCompound(f)
    \/ UnaryOperators

SpecFrame == InitMul /\ [][NextFrame]_vars

\* the value lhs op rhs of the element type
ElementOp(f, lhs, rhs) ==
    CASE f = "+=" -> addition_assignment(lhs, rhs)
      [] f = "-=" -> subtraction_assignment(lhs, rhs)
      [] f = "*=" -> multiplication_assignment(lhs, rhs)
      [] f = "/=" -> division_assignment(lhs, rhs)

\* C14: a compound assignment changes only its left operand, leaves the right
\* operand unchanged and returns a reference to the left operand; the
\* matching binary operator and the unary operators leave their operands
\* unchanged and return the value the compound assignment leaves in the left
\* operand.
C14_CompoundFrame ==
    /\ out.op \in {"vec_compound", "vec_compound_scalar"} =>
          /\ OtherColumnsKept(out.before, out.column)
          /\ out.rhs_after = out.rhs
          /\ out.ret = "lhs"
          /\ m.columns_[out.column].dimension = m.row_count
          /\ \A r \in 0..(m.row_count - 1) :
                Entry(m, out.column, r) =
                    ElementOp(out.f, Entry(out.before, out.column, r),
                              IF out.op = "vec_compound" THEN out.rhs[Names[r + 1]]
                              ELSE out.rhs)
          /\ out.binary.lhs = out.before.columns_[out.column]
          /\ out.binary.rhs = out.rhs
          /\ out.binary.value = m.columns_[out.column]
    /\ out.op \in {"mat_compound", "mat_compound_scalar"} =>
          /\ m.row_count = out.before.row_count
          /\ m.column_count = out.before.column_count
          /\ DOMAIN m.columns_ = DOMAIN out.before.columns_
          /\ \A c \in DOMAIN m.columns_ : m.columns_[c].dimension = m.row_count
          /\ out.rhs_after = out.rhs
          /\ out.ret = "lhs"
          /\ (out.op = "mat_compound" /\ out.f = "*=") =>
                \A c \in 0..(m.column_count - 1), r \in 0..(m.row_count - 1) :
                    Entry(m, c, r) = ProductSum(out.before, out.rhs, r, c, 0)
          /\ ~(out.op = "mat_compound" /\ out.f = "*=") =>
                \A c \in 0..(m.column_count - 1), r \in 0..(m.row_count - 1) :
                    Entry(m, c, r) =
                        ElementOp(out.f, Entry(out.before, c, r),
                                  IF out.op = "mat_compound" THEN Entry(out.rhs, c, r)
                                  ELSE out.rhs)
          /\ out.binary.lhs = out.before
          /\ out.binary.rhs = out.rhs
          /\ out.binary.value = m
    /\ out.op = "unary" =>
          /\ m = out.before
          /\ out.vec_plus.lhs = m.columns_[out.column]
          /\ out.vec_minus.lhs = m.columns_[out.column]
          /\ out.mat_plus.lhs = m
          /\ out.mat_minus.lhs = m
          /\ out.vec_plus.value = m.columns_[out.column]
          /\ out.mat_plus.value = m
          /\ \A c \in 0..(m.column_count - 1), r \in 0..(m.row_count - 1) :
                /\ Entry(out.mat_minus.value, c, r) = Neg(Entry(m, c, r))
                /\ c = out.column => out.vec_minus.value[Names[r + 1]] = Neg(Entry(m, c, r))

C14_Witness ==
    /\ out.op = "vec_compound"
    /\ out.f = "-="
    /\ out.column = 1
    /\ m.column_count = 2
    /\ m.row_count = 2
    /\ Entry(out.before, 0, 0) = One
    /\ Entry(out.before, 1, 1) = One
    /\ out.rhs.x = Zero
    /\ out.rhs.y = T(-1)
    /\ Entry(m, 1, 0) = Zero
    /\ Entry(m, 1, 1) = T(2)
    /\ Entry(m, 0, 0) = One

(***************************************************************************)
(* vec::iterator.                                                          *)
(***************************************************************************)
\* iterator(v, pos): v_{&v}, pos_{pos}
iterator(ref, pos) == [v_ |-> ref, pos_ |-> pos]

\* vec::begin and vec::end
begin(ref) == iterator(ref, 0)

end(ref, u) == iterator(ref, u.dimension)

\* iterator::operator*: (*v_)[pos_], the component referred to
indirection(it, u) == subscript(u.dimension, it.pos_)

\* iterator::operator++(): ++pos_, the iterator itself is returned
prefix_increment_mutant(it) == [it EXCEPT !.pos_ = @ + 2]

prefix_increment(it) == [it EXCEPT !.pos_ = @ + 1]

\* iterator::operator==: v_ == other.v_ && pos_ == other.pos_
iterator_equal(self, other) == self.v_ = other.v_ /\ self.pos_ = other.pos_

Iterators == {"a", "b"}

InitIter ==
    /\ v \in {vec_default(N) : N \in 1..4}
    /\ m = mat_default(1, 1)
    /\ nw = 0
    /\ out = NoOp

\* auto a = v.begin(), b = v.begin() and, later, which = v.begin() once more
IterBegin(which) ==
    /\ out' = IF out.op = "none"
              THEN [op |-> "begin", status |-> "ok", which |-> which,
                    its |-> [i \in Iterators |-> begin("v")],
                    steps |-> [i \in Iterators |-> 0]]
              ELSE [out EXCEPT !.op = "begin", !.status = "ok", !.which = which,
                               !.its[which] = begin("v"), !.steps[which] = 0]
    /\ UNCHANGED <<v, m, nw>>

\* ++which
IterIncrement(which) ==
    /\ out.op \in {"begin", "increment"}
    /\ out.its[which].pos_ < MaxIndex
    /\ out' = [out EXCEPT !.op = "increment", !.status = "ok", !.which = which,
                          !.its[which] = prefix_increment(@),
                          !.steps[which] = @ + 1]
    /\ UNCHANGED <<v, m, nw>>

\* *which
IterIndirection(which) ==
    /\ out.op \in {"begin", "increment"}
    /\ LET ref == indirection(out.its[which], v)
       IN  out' = [op |-> "indirection", which |-> which, its |-> out.its,
                   steps |-> out.steps, ref |-> ref,
                   status |-> IF ref = OutOfRange THEN OutOfRange ELSE "ok"]
    /\ UNCHANGED <<v, m, nw>>

NextIter ==
    \/ \E which \in Iterators : IterBegin(which)
    \/ \E which \in Iterators : IterIncrement(which)
    \/ \E which \in Iterators : IterIndirection(which)

SpecIter == InitIter /\ [][NextIter]_vars

\* C15: an iterator advanced k times by ++it from begin() refers to component
\* k for k < N and equals end() exactly when k = N, whatever was traversed
\* before and however far the other iterator over the same vector has been
\* advanced.
C15_PrefixIteration ==
    out.op # "none" =>
        \A i \in Iterators :
            /\ out.its[i].pos_ = out.steps[i]
            /\ iterator_equal(out.its[i], end("v", v)) <=> out.steps[i] = v.dimension
            /\ (out.op = "indirection" /\ out.which = i) =>
                  out.ref = IF out.steps[i] < v.dimension THEN Names[out.steps[i] + 1]
                            ELSE OutOfRange

C15_Witness ==
    /\ out.op = "increment"
    /\ out.which = "a"
    /\ v.dimension = 3
    /\ out.steps["a"] = 3
    /\ out.steps["b"] = 1
    /\ iterator_equal(out.its["a"], end("v", v))
    /\ ~iterator_equal(out.its["b"], end("v", v))


(***************************************************************************)
(* Construction of a vector and its conversion to bool.                    *)
(***************************************************************************)
\* std::ranges::fill(first, last, value): *first = value for every position
\* of the range, advanced by ++first
RECURSIVE fill_loop(_, _, _, _)
fill_loop(u, first, last, value) ==
    IF iterator_equal(first, last) THEN u
    ELSE fill_loop([u EXCEPT ![indirection(first, u)] = value],
                   prefix_increment(first), last, value)

\* vec(FromT const& scale): std::ranges::fill(*this, scale)
vec_scalar(N, scale) ==
    fill_loop(vec_default(N), begin("this"), end("this", vec_default(N)), scale)

\* vec(vec<FromN, FromT> const& v): (*this)[i] = v[i] for every i < FromN
RECURSIVE vec_convert_loop(_, _, _)
vec_convert_loop(u, from, i) ==
    IF i >= from.dimension THEN u
    ELSE vec_convert_loop(vec_set(u, i, vec_get(from, i)), from, i + 1)

vec_convert(N, from) == vec_convert_loop(vec_default(N), from, 0)

\* the forms of initialization: vec<N, T> u(args...) and vec<N, T> u = arg
Forms == {"direct", "copy"}

\* the constructor overload resolution selects for the arguments: none is
\* the default constructor; for one argument of a direct-initialization both
\* templates are viable and the one without a parameter pack is the more
\* specialized; a copy-initialization does not consider the explicit one
selected_mutant(args, form) ==
    IF Len(args) = 0 THEN "default" ELSE "components"

selected(args, form) ==
    IF Len(args) = 0 THEN "default"
    ELSE IF Len(args) = 1 /\ form = "direct" THEN "scale"
    ELSE "components"

construct(N, args, form) ==
    IF selected(args, form) = "default" THEN vec_default(N)
    ELSE IF selected(args, form) = "scale" THEN vec_scalar(N, args[1])
    ELSE vec_components(N, args)

\* std::ranges::any_of(first, last, std::identity{}): true at the first
\* position whose component converts to true
RECURSIVE any_of_loop(_, _, _)
any_of_loop_mutant(u, first, last) ==
    IF iterator_equal(first, last) THEN FALSE
    ELSE u[indirection(first, u)] # Zero

any_of_loop(u, first, last) ==
    IF iterator_equal(first, last) THEN FALSE
    ELSE IF u[indirection(first, u)] # Zero THEN TRUE
    ELSE any_of_loop(u, prefix_increment(first), last)

\* vec::operator bool
operator_bool(u) == any_of_loop(u, begin("self"), end("self", u))

\* the argument lists of at most N values
Arguments(N) == UNION {[1..k -> Vals] : k \in 0..N}

InitVecCtor ==
    /\ v \in {vec_default(N) : N \in 1..4}
    /\ m = mat_default(1, 1)
    /\ nw = 0
    /\ out = NoOp

\* v = vec<N, T>(args...) or vec<N, T> v = arg
VecConstruct ==
    /\ out.op = "none"
    /\ \E args \in Arguments(v.dimension), form \in Forms :
          /\ form = "copy" => Len(args) = 1
          /\ v' = construct(v.dimension, args, form)
          /\ out' = [op |-> "vec_ctor", status |-> "ok", args |-> args,
                     form |-> form, ctor |-> selected(args, form)]
    /\ UNCHANGED <<m, nw>>

\* v = vec<N, T>(from) for a vec<FromN, T> from, FromN <= N
VecConvert ==
    /\ out.op = "none"
    /\ \E FromN \in 1..v.dimension :
          \E components \in [1..FromN -> Vals] :
              LET from == vec_components(FromN, components)
              IN  /\ v' = vec_convert(v.dimension, from)
                  /\ out' = [op |-> "vec_convert", status |-> "ok", from |-> from]
    /\ UNCHANGED <<m, nw>>

\* static_cast<bool>(v)
VecBool ==
    /\ out.op \in {"none", "vec_ctor", "vec_convert"}
    /\ out' = [op |-> "bool", status |-> "ok", value |-> operator_bool(v)]
    /\ UNCHANGED <<v, m, nw>>

NextVecCtor ==
    \/ VecConstruct
    \/ VecConvert
    \/ VecBool

SpecVecCtor == InitVecCtor /\ [][NextVecCtor]_vars

\* C16: a vector converts to true exactly when at least one of its N
\* components is nonzero; the default-constructed vector converts to false.
C16_OperatorBool ==
    out.op = "bool" =>
        /\ out.value = (\E i \in 0..(v.dimension - 1) : vec_get(v, i) # Zero)
        /\ v = vec_default(v.dimension) => out.value = FALSE

C16_Witness ==
    /\ out.op = "bool"
    /\ v.dimension = 3
    /\ v.x = Zero /\ v.y = Zero /\ v.z = One
    /\ out.value = TRUE

\* the components 0..k-1 are the k values in order and the others are zero
PrefixOf(u, values) ==
    \A i \in 0..(u.dimension - 1) :
        vec_get(u, i) = IF i < Len(values) THEN values[i + 1] ELSE Zero

\* C17 as stated: a construction from k <= N values sets the components
\* 0..k-1 to the values and leaves the others zero, for every k.
C17_ConstructionAsStated ==
    /\ out.op = "vec_ctor" => PrefixOf(v, out.args)
    /\ out.op = "vec_convert" =>
          PrefixOf(v, [i \in 1..out.from.dimension |-> vec_get(out.from, i - 1)])

\* C17: a construction from k <= N values sets the components 0..k-1 to the
\* values and leaves the others zero, except that the direct-initialization
\* from exactly one value selects the scalar constructor and sets all N
\* components to the value; a construction from a vector of dimension
\* FromN <= N copies the components 0..FromN-1 and leaves the others zero;
\* the default construction gives all zeros.
C17_Construction ==
    /\ out.op = "vec_ctor" =>
          /\ out.ctor = "scale" <=> (Len(out.args) = 1 /\ out.form = "direct")
          /\ out.ctor = "scale" =>
                \A i \in 0..(v.dimension - 1) : vec_get(v, i) = out.args[1]
          /\ out.ctor # "scale" => PrefixOf(v, out.args)
          /\ out.ctor = "default" => v = vec_default(v.dimension)
    /\ out.op = "vec_convert" =>
          PrefixOf(v, [i \in 1..out.from.dimension |-> vec_get(out.from, i - 1)])

C17_Witness ==
    /\ out.op = "vec_ctor"
    /\ out.form = "direct"
    /\ out.args = <<One>>
    /\ v.dimension = 3
    /\ v.x = One /\ v.y = One /\ v.z = One


(***************************************************************************)
(* Construction of a matrix from a matrix of another size.                 *)
(***************************************************************************)
\* mat(mat<FromR, FromC, FromT> const& m): (*this)[i] is the column m[i]
\* cast to column_type, for every i < m.column_count
RECURSIVE mat_convert_loop(_, _, _)
mat_convert_loop_mutant(res, from, i) ==
    IF i >= from.column_count - 1 THEN res
    ELSE mat_convert_loop([res EXCEPT !.columns_[i] = vec_convert(res.row_count, from.columns_[i])],
                          from, i + 1)

mat_convert_loop(res, from, i) ==
    IF i >= from.column_count THEN res
    ELSE mat_convert_loop([res EXCEPT !.columns_[i] = vec_convert(res.row_count, from.columns_[i])],
                          from, i + 1)

mat_convert(R, C, from) == mat_convert_loop(mat_default(R, C), from, 0)

\* the sizes R x C of a matrix constructible from mm: FromR <= R, FromC <= C
ConvertibleTo(mm) ==
    {rc \in (1..4) \X (1..4) :
        /\ mm.row_count <= rc[1] /\ rc[1] <= MulDim + 1
        /\ mm.column_count <= rc[2] /\ rc[2] <= MulDim + 1}

\* mat<R, C, T> res(m)
MatConvert ==
    /\ Idle
    /\ \E rc \in ConvertibleTo(m) :
          out' = [op |-> "mat_convert", status |-> "ok", before |-> m,
                  value |-> mat_convert(rc[1], rc[2], m)]
    /\ UNCHANGED <<v, m, nw>>

NextMatConvert ==
    \/ MulWrite(MaxMulWrites)
    \/ MatConvert

SpecMatConvert == InitMul /\ [][NextMatConvert]_vars

\* C18: a mat<R, C, T> constructed from a mat<FromR, FromC, T> with FromR <= R
\* and FromC <= C has the entry (c, r) of the source for every c < FromC and
\* r < FromR and zero in every other entry, the added diagonal entries
\* included; the source is unchanged.
C18_MatConvert ==
    out.op = "mat_convert" =>
        /\ m = out.before
        /\ m.row_count <= out.value.row_count
        /\ m.column_count <= out.value.column_count
        /\ DOMAIN out.value.columns_ = 0..(out.value.column_count - 1)
        /\ \A c \in 0..(out.value.column_count - 1) :
              /\ out.value.columns_[c].dimension = out.value.row_count
              /\ \A r \in 0..(out.value.row_count - 1) :
                    Entry(out.value, c, r) =
                        IF c < m.column_count /\ r < m.row_count THEN Entry(m, c, r)
                        ELSE Zero

C18_Witness ==
    /\ out.op = "mat_convert"
    /\ m = mat_scalar(2, 2, One).value
    /\ out.value.row_count = 3
    /\ out.value.column_count = 3
    /\ Entry(out.value, 0, 0) = One
    /\ Entry(out.value, 1, 1) = One
    /\ Entry(out.value, 2, 2) = Zero


(***************************************************************************)
(* Transformation matrices: translation and cross_matrix.                  *)
(***************************************************************************)
\* translation(v): t[N][i] = v[i] for every i < N
RECURSIVE translation_loop(_, _, _)
translation_loop_mutant(t, u, i) ==
    IF i >= u.dimension THEN t
    ELSE translation_loop(
            [t EXCEPT !.columns_[i] = vec_set(@, u.dimension, vec_get(u, i))], u, i + 1)

translation_loop(t, u, i) ==
    IF i >= u.dimension THEN t
    ELSE translation_loop(
            [t EXCEPT !.columns_[u.dimension] = vec_set(@, i, vec_get(u, i))], u, i + 1)

\* translation(v): mat<N + 1, N + 1, T> t{T{1}}, then the loop
translation(u) ==
    LET t == mat_scalar(u.dimension + 1, u.dimension + 1, One)
    IN  IF t.status # "ok" THEN t
        ELSE [status |-> "ok", value |-> translation_loop(t.value, u, 0)]

\* cross(lhs, rhs)
cross_mutant(lhs, rhs) ==
    vec_components(3,
        <<subtraction_assignment(multiplication_assignment(lhs.y, rhs.z),
                                 multiplication_assignment(lhs.z, rhs.y)),
          subtraction_assignment(multiplication_assignment(lhs.z, rhs.x),
                                 multiplication_assignment(lhs.x, rhs.z)),
          addition_assignment(multiplication_assignment(lhs.x, rhs.y),
                              multiplication_assignment(lhs.y, rhs.x))>>)

cross(lhs, rhs) ==
    vec_components(3,
        <<subtraction_assignment(multiplication_assignment(lhs.y, rhs.z),
                                 multiplication_assignment(lhs.z, rhs.y)),
          subtraction_assignment(multiplication_assignment(lhs.z, rhs.x),
                                 multiplication_assignment(lhs.x, rhs.z)),
          subtraction_assignment(multiplication_assignment(lhs.x, rhs.y),
                                 multiplication_assignment(lhs.y, rhs.x))>>)

\* cross_matrix(v): the columns (0, v2, -v1), (-v2, 0, v0), (v1, -v0, 0)
cross_matrix_mutant(u) ==
    LET v0 == vec_get(u, 0)
        v1 == vec_get(u, 1)
        v2 == vec_get(u, 2)
    IN  mat_columns(<<vec_components(3, <<Zero, v2, Neg(v1)>>),
                      vec_components(3, <<Neg(v2), Zero, v0>>),
                      vec_components(3, <<v1, v0, Zero>>)>>)

cross_matrix(u) ==
    LET v0 == vec_get(u, 0)
        v1 == vec_get(u, 1)
        v2 == vec_get(u, 2)
    IN  mat_columns(<<vec_components(3, <<Zero, v2, Neg(v1)>>),
                      vec_components(3, <<Neg(v2), Zero, v0>>),
                      vec_components(3, <<v1, Neg(v0), Zero>>)>>)

\* the vectors vec<N, T>{components...} of N values
VecArgs(N) == {vec_components(N, components) : components \in [1..N -> Vals]}

\* vec<N + 1, T>{u[0], ..., u[N - 1], w}
Homogeneous(u, w) ==
    vec_components(u.dimension + 1,
        [i \in 1..(u.dimension + 1) |-> IF i <= u.dimension THEN vec_get(u, i - 1) ELSE w])

Vec123 == vec_components(3, <<T(1), T(2), T(3)>>)

InitTransform ==
    /\ v \in UNION {VecArgs(N) : N \in 1..3} \cup {Vec123}
    /\ m = mat_default(1, 1)
    /\ nw = 0
    /\ out = NoOp

\* t = translation(v), t * (u, 1) and t * translation(u)
Translation ==
    /\ out.op = "none"
    /\ \E u \in VecArgs(v.dimension) :
          LET t == translation(v)
          IN  out' = IF t.status = "ok"
                     THEN [op |-> "translation", status |-> "ok", value |-> t.value,
                           u |-> u,
                           moved |-> mat_mul_vec(t.value, Homogeneous(u, One)),
                           composed |-> mat_mul(t.value, translation(u).value)]
                     ELSE [op |-> "translation", status |-> t.status, u |-> u]
    /\ UNCHANGED <<v, m, nw>>

\* c = cross_matrix(v), c * u, cross(v, u), transpose(c) and -c
CrossMatrix ==
    /\ out.op = "none"
    /\ v.dimension = 3
    /\ \E u \in VecArgs(3) :
          LET c == cross_matrix(v)
          IN  out' = [op |-> "cross_matrix", status |-> "ok", value |-> c, u |-> u,
                      product |-> mat_mul_vec(c, u),
                      cross |-> cross(v, u),
                      transposed |-> transpose(c),
                      negated |-> mat_unary(c, "-").value]
    /\ UNCHANGED <<v, m, nw>>

NextTransform ==
    \/ Translation
    \/ CrossMatrix

SpecTransform == InitTransform /\ [][NextTransform]_vars

\* the sum a + b of two vectors
Sum(a, b) == vec_binary(a, b, "+=").value

\* C19: for N in 1..3, translation(v) is the (N + 1) x (N + 1) identity with
\* v in the first N rows of the last column; translation(v) * (u, 1) is
\* (u + v, 1), so translation((1, 2, 3)) * (0, 0, 0, 1) is (1, 2, 3, 1); and
\* translation(v) * translation(u) is translation(v + u).
C19_Translation ==
    out.op = "translation" =>
        LET N == v.dimension
        IN  /\ out.status = "ok"
            /\ out.value.row_count = N + 1
            /\ out.value.column_count = N + 1
            /\ \A c \in 0..N : \A r \in 0..N :
                  Entry(out.value, c, r) =
                      IF c = N /\ r < N THEN vec_get(v, r)
                      ELSE IF c = r THEN One ELSE Zero
            /\ out.moved = Homogeneous(Sum(out.u, v), One)
            /\ (v = Vec123 /\ out.u = vec_default(3)) =>
                  out.moved = vec_components(4, <<T(1), T(2), T(3), T(1)>>)
            /\ out.composed = translation(Sum(v, out.u)).value

C19_Witness ==
    /\ out.op = "translation"
    /\ v = Vec123
    /\ out.u = vec_default(3)
    /\ Entry(out.value, 3, 0) = T(1)
    /\ Entry(out.value, 3, 1) = T(2)
    /\ Entry(out.value, 3, 2) = T(3)
    /\ Entry(out.value, 3, 3) = One
    /\ out.moved = vec_components(4, <<T(1), T(2), T(3), T(1)>>)

\* C20: for all 3-vectors v and u, cross_matrix(v) * u is cross(v, u), and
\* transpose(cross_matrix(v)) is -cross_matrix(v).
C20_CrossMatrix ==
    out.op = "cross_matrix" =>
        /\ out.product = out.cross
        /\ out.cross = vec_components(3,
              <<T(v.y[1] * out.u.z[1] - v.z[1] * out.u.y[1]),
                T(v.z[1] * out.u.x[1] - v.x[1] * out.u.z[1]),
                T(v.x[1] * out.u.y[1] - v.y[1] * out.u.x[1])>>)
        /\ out.transposed.status = "ok"
        /\ out.transposed.value = out.negated
        /\ \A c \in 0..2 : \A r \in 0..2 :
              Entry(out.value, c, r) = Neg(Entry(out.value, r, c))

C20_Witness ==
    /\ out.op = "cross_matrix"
    /\ v = vec_components(3, <<One, Zero, Zero>>)
    /\ out.u = vec_components(3, <<Zero, One, Zero>>)
    /\ out.product = vec_components(3, <<Zero, Zero, One>>)
    /\ Entry(out.value, 1, 2) = One
    /\ Entry(out.value, 2, 1) = T(-1)


(***************************************************************************)
(* Dot and cross product.                                                  *)
(***************************************************************************)
\* dot(lhs, rhs): s += lhs[i] * rhs[i] for every i < N, from s{}
RECURSIVE dot_loop(_, _, _, _)
dot_loop(s, lhs, rhs, i) ==
    IF i >= lhs.dimension THEN s
    ELSE dot_loop(addition_assignment(s,
                      multiplication_assignment(vec_get(lhs, i), vec_get(rhs, i))),
                  lhs, rhs, i + 1)

dot(lhs, rhs) == dot_loop(Zero, lhs, rhs, 0)

\* norm_squared(v): dot(v, v)
norm_squared(u) == dot(u, u)

InitCross ==
    /\ v \in VecArgs(3)
    /\ m = mat_default(1, 1)
    /\ nw = 0
    /\ out = NoOp

\* cross(v, u), -cross(u, v), cross(v, v) and dot(v, cross(v, u))
CrossProduct ==
    /\ out.op = "none"
    /\ \E u \in VecArgs(3) :
          out' = [op |-> "cross", status |-> "ok", u |-> u,
                  ab |-> cross(v, u),
                  neg_ba |-> vec_unary(cross(u, v), "-").value,
                  aa |-> cross(v, v),
                  dot |-> dot(v, cross(v, u))]
    /\ UNCHANGED <<v, m, nw>>

NextCross ==
    \/ CrossProduct

SpecCross == InitCross /\ [][NextCross]_vars

\* C21: for all 3-vectors a and b, cross(a, b) == -cross(b, a), cross(a, a)
\* is the zero vector and dot(a, cross(a, b)) == 0.
C21_CrossAntiCommutative ==
    out.op = "cross" =>
        /\ out.ab = out.neg_ba
        /\ out.aa = vec_default(3)
        /\ out.dot = Zero

C21_Witness ==
    /\ out.op = "cross"
    /\ v = vec_components(3, <<One, Zero, Zero>>)
    /\ out.u = vec_components(3, <<Zero, One, Zero>>)
    /\ out.ab = vec_components(3, <<Zero, Zero, One>>)
    /\ out.neg_ba = vec_components(3, <<Zero, Zero, One>>)


(***************************************************************************)
(* quat<T>: a vec<4, T> with the imaginary part in x, y, z and the real     *)
(* part in w.                                                              *)
(***************************************************************************)
\* quat(x, y, z, w): vec<4, T>{x, y, z, w}
quat(x, y, z, w) == vec_components(4, <<x, y, z, w>>)

\* quat(vec<3> v, w): quat{v.x, v.y, v.z, w}
quat_from_vec(u, w) == quat(u.x, u.y, u.z, w)

\* conjugate(q): {-q.x, -q.y, -q.z, q.w}
conjugate_mutant(q) == quat(Neg(q.x), Neg(q.y), q.z, q.w)

conjugate(q) == quat(Neg(q.x), Neg(q.y), Neg(q.z), q.w)

\* the products and sums of T in the expressions below
Times(a, b) == multiplication_assignment(a, b)

Plus(a, b) == addition_assignment(a, b)

Minus(a, b) == subtraction_assignment(a, b)

\* operator*(quat, quat): the Hamilton product
quat_mul_mutant(lhs, rhs) ==
    quat(Plus(Plus(Plus(Times(lhs.w, rhs.x), Times(lhs.x, rhs.w)), Times(lhs.y, rhs.z)),
              Times(lhs.z, rhs.y)),
         Plus(Plus(Minus(Times(lhs.w, rhs.y), Times(lhs.x, rhs.z)), Times(lhs.y, rhs.w)),
              Times(lhs.z, rhs.x)),
         Plus(Minus(Plus(Times(lhs.w, rhs.z), Times(lhs.x, rhs.y)), Times(lhs.y, rhs.x)),
              Times(lhs.z, rhs.w)),
         Minus(Minus(Minus(Times(lhs.w, rhs.w), Times(lhs.x, rhs.x)), Times(lhs.y, rhs.y)),
               Times(lhs.z, rhs.z)))

quat_mul(lhs, rhs) ==
    quat(Minus(Plus(Plus(Times(lhs.w, rhs.x), Times(lhs.x, rhs.w)), Times(lhs.y, rhs.z)),
               Times(lhs.z, rhs.y)),
         Plus(Plus(Minus(Times(lhs.w, rhs.y), Times(lhs.x, rhs.z)), Times(lhs.y, rhs.w)),
              Times(lhs.z, rhs.x)),
         Plus(Minus(Plus(Times(lhs.w, rhs.z), Times(lhs.x, rhs.y)), Times(lhs.y, rhs.x)),
              Times(lhs.z, rhs.w)),
         Minus(Minus(Minus(Times(lhs.w, rhs.w), Times(lhs.x, rhs.x)), Times(lhs.y, rhs.y)),
               Times(lhs.z, rhs.z)))

\* the quaternions quat<T>{x, y, z, w}
Quats == VecArgs(4)

InitQuat ==
    /\ v \in Quats
    /\ m = mat_default(1, 1)
    /\ nw = 0
    /\ out = NoOp

\* v * q, q * v, v * conjugate(v) and the squared norms
QuatMul ==
    /\ out.op = "none"
    /\ \E q \in Quats :
          out' = [op |-> "quat_mul", status |-> "ok", q |-> q,
                  pq |-> quat_mul(v, q),
                  qp |-> quat_mul(q, v),
                  conj |-> quat_mul(v, conjugate(v)),
                  norm_pq |-> norm_squared(quat_mul(v, q)),
                  norm_p |-> norm_squared(v),
                  norm_q |-> norm_squared(q)]
    /\ UNCHANGED <<v, m, nw>>

\* (v * q) * r and v * (q * r), for q and r with at most one nonzero component
QuatMulAssociate ==
    /\ out.op = "none"
    /\ \E q \in VecOperands(4, 1), r \in VecOperands(4, 1) :
          out' = [op |-> "quat_mul_associate", status |-> "ok", q |-> q, r |-> r,
                  left |-> quat_mul(quat_mul(v, q), r),
                  right |-> quat_mul(v, quat_mul(q, r))]
    /\ UNCHANGED <<v, m, nw>>

NextQuat ==
    \/ QuatMul
    \/ QuatMulAssociate

SpecQuat == InitQuat /\ [][NextQuat]_vars

\* C22: for all quaternions p and q, norm_squared(p * q) is
\* norm_squared(p) * norm_squared(q), so the product of two quaternions of
\* norm one has norm one.
C22_NormMultiplicative ==
    out.op = "quat_mul" =>
        /\ out.norm_pq = Times(out.norm_p, out.norm_q)
        /\ (out.norm_p = One /\ out.norm_q = One) => out.norm_pq = One

C22_Witness ==
    /\ out.op = "quat_mul"
    /\ v = quat(One, One, Zero, One)
    /\ out.q = quat(Zero, One, T(-1), One)
    /\ out.norm_p = T(3)
    /\ out.norm_q = T(3)
    /\ out.norm_pq = T(9)

QuatI == quat(One, Zero, Zero, Zero)

QuatJ == quat(Zero, One, Zero, Zero)

QuatK == quat(Zero, Zero, One, Zero)

QuatOne == quat(Zero, Zero, Zero, One)

\* C23: the quaternion product is the Hamilton product: i*j == k, j*k == i,
\* k*i == j, j*i == -k, i*i == -one, one is a two-sided identity, the product
\* is associative, and q * conjugate(q) == (0, 0, 0, norm_squared(q)).
C23_HamiltonProduct ==
    /\ out.op = "quat_mul" =>
          /\ (v = QuatI /\ out.q = QuatJ) =>
                (out.pq = QuatK /\ out.qp = vec_unary(QuatK, "-").value)
          /\ (v = QuatJ /\ out.q = QuatK) => out.pq = QuatI
          /\ (v = QuatK /\ out.q = QuatI) => out.pq = QuatJ
          /\ (v = QuatI /\ out.q = QuatI) => out.pq = vec_unary(QuatOne, "-").value
          /\ out.q = QuatOne => (out.pq = v /\ out.qp = v)
          /\ out.conj = quat(Zero, Zero, Zero, out.norm_p)
    /\ out.op = "quat_mul_associate" => out.left = out.right

C23_Witness ==
    /\ out.op = "quat_mul"
    /\ v = QuatI
    /\ out.q = QuatJ
    /\ out.pq = QuatK
    /\ out.qp = quat(Zero, Zero, T(-1), Zero)


(***************************************************************************)
(* Conjugation of a vector by a quaternion, and versor.                    *)
(***************************************************************************)
\* scale * v, which is v * scale
scale_vec(scale, u) == vec_binary_scalar(u, scale, "*=").value

\* operator*(quat, vec<3>): v + 2 * (q.w * ort + cross(imag, ort)) with
\* imag{q.x, q.y, q.z} and ort{cross(imag, v)}
quat_mul_vec_mutant(q, u) ==
    LET imag == vec_components(3, <<q.x, q.y, q.z>>)
        ort == cross(imag, u)
    IN  vec_binary(u,
            vec_binary(scale_vec(q.w, ort), cross(imag, ort), "+=").value,
            "+=").value

quat_mul_vec(q, u) ==
    LET imag == vec_components(3, <<q.x, q.y, q.z>>)
        ort == cross(imag, u)
    IN  vec_binary(u,
            scale_vec(T(2),
                vec_binary(scale_vec(q.w, ort), cross(imag, ort), "+=").value),
            "+=").value

\* an angle a in [0, 2 * pi] is held as the point (cos(a / 2), sin(a / 2)) of
\* the unit circle, so that the sines and cosines taken of it are exact
angle(c, s) == [cos_half |-> c, sin_half |-> s]

\* the angle 0
AngleZero == angle(One, Zero)

\* versor(axis, angle): {axis * sin(half_angle), cos(half_angle)}
versor_mutant(axis, a) ==
    quat_from_vec(vec_binary_scalar(axis, a.cos_half, "*=").value, a.sin_half)

versor(axis, a) == quat_from_vec(vec_binary_scalar(axis, a.sin_half, "*=").value, a.cos_half)

\* the quaternions of norm one with components in Vals, halves or fifths
UnitQuats ==
    LET S == Vals \cup {Rat(1, 2), Rat(-1, 2), Rat(3, 5), Rat(4, 5)}
    IN  {q \in {vec_components(4, c) : c \in [1..4 -> S]} : norm_squared(q) = One}

InitConj ==
    /\ v \in UnitQuats
    /\ m = mat_default(1, 1)
    /\ nw = 0
    /\ out = NoOp

\* v * u and v * quat{u, 0} * conjugate(v)
QuatMulVec ==
    /\ out.op = "none"
    /\ \E u \in VecArgs(3) :
          out' = [op |-> "quat_mul_vec", status |-> "ok", u |-> u,
                  value |-> quat_mul_vec(v, u),
                  sandwich |-> quat_mul(quat_mul(v, quat_from_vec(u, Zero)), conjugate(v)),
                  versor0 |-> quat_mul_vec(versor(u, AngleZero), u)]
    /\ UNCHANGED <<v, m, nw>>

NextConj ==
    \/ QuatMulVec

SpecConj == InitConj /\ [][NextConj]_vars

\* C24: for every quaternion q of norm one and every 3-vector u, q * u is the
\* imaginary part of q * (u, 0) * conjugate(q), whose real part is zero; the
\* identity quaternion versor(axis, 0) = (0, 0, 0, 1) returns u unchanged.
C24_VectorConjugation ==
    out.op = "quat_mul_vec" =>
        /\ out.value = vec_components(3, <<out.sandwich.x, out.sandwich.y, out.sandwich.z>>)
        /\ out.sandwich.w = Zero
        /\ versor(out.u, AngleZero) = QuatOne
        /\ out.versor0 = out.u
        /\ v = QuatOne => out.value = out.u

C24_Witness ==
    /\ out.op = "quat_mul_vec"
    /\ v = quat(Rat(1, 2), Rat(1, 2), Rat(1, 2), Rat(1, 2))
    /\ out.u = vec_components(3, <<One, Zero, Zero>>)
    /\ out.value = vec_components(3, <<Zero, One, Zero>>)


(***************************************************************************)
(* Rotation matrices: axis_angle, rotation(axis, angle) and rotation(q).   *)
(***************************************************************************)
\* the largest k with k * k <= n, between lo and hi
RECURSIVE ISqrtBetween(_, _, _)
ISqrtBetween(n, lo, hi) ==
    IF lo >= hi THEN lo
    ELSE LET mid == (lo + hi + 1) \div 2
         IN  IF mid * mid <= n THEN ISqrtBetween(n, mid, hi)
             ELSE ISqrtBetween(n, lo, mid - 1)

ISqrt(n) == ISqrtBetween(n, 0, IF n < 46340 THEN n ELSE 46340)

IsSquare(n) == ISqrt(n) * ISqrt(n) = n

Inexact == "inexact"

\* std::sqrt of a rational: exact when the value is the square of a rational
\* or of a rational multiple of sqrt(2)
Sqrt(a) ==
    IF IsNaN(a) \/ a[1] < 0 THEN NaN
    ELSE IF IsSquare(a[1]) /\ IsSquare(a[2]) THEN <<ISqrt(a[1]), ISqrt(a[2])>>
    ELSE LET r == Rat(a[1], 2 * a[2])
         IN  IF IsSquare(r[1]) /\ IsSquare(r[2]) THEN Surd(ISqrt(r[1]), ISqrt(r[2]))
             ELSE Inexact

\* a <= b for values that are not negative
Le(a, b) ==
    IF IsSurd(a) \/ IsSurd(b)
    THEN LET a2 == Times(a, a)
             b2 == Times(b, b)
         IN  a2[1] * b2[2] <= b2[1] * a2[2]
    ELSE a[1] * b[2] <= b[1] * a[2]

\* std::numeric_limits<T>::epsilon(), here of a type with three fraction bits
Epsilon == Rat(1, 8)

\* norm(v): std::sqrt(norm_squared(v))
norm(u) == Sqrt(norm_squared(u))

\* std::cos(angle) and std::sin(angle) from the half angle
cos_angle(a) == Times(Minus(a.cos_half, a.sin_half), Plus(a.cos_half, a.sin_half))

sin_angle(a) == Times(T(2), Times(a.sin_half, a.cos_half))

\* 2 * std::atan2(y, x) for y >= 0: the angle whose half has the direction
\* of (x, y)
double_atan2(y, x) ==
    LET h == Sqrt(Plus(Times(x, x), Times(y, y)))
    IN  IF h = Zero THEN AngleZero
        ELSE angle(division_assignment(x, h), division_assignment(y, h))

\* angle <= epsilon: the half angle is below a right angle and its tangent
\* is at most tan(epsilon / 2); the tangents of the model are not between
\* epsilon / 2 and tan(epsilon / 2)
angle_le_epsilon(a) ==
    /\ a.cos_half[1] > 0
    /\ Le(division_assignment(a.sin_half, a.cos_half), division_assignment(Epsilon, T(2)))

\* axis_angle(q): {} when norm(imag) <= epsilon, else
\* {imag / imag_norm, 2 * atan2(imag_norm, q.w)}
axis_angle_mutant(q) ==
    LET imag == vec_components(3, <<q.x, q.y, q.z>>)
        imag_norm == norm(imag)
    IN  IF imag_norm = Zero
        THEN [axis |-> vec_default(3), angle |-> AngleZero]
        ELSE [axis |-> vec_binary_scalar(imag, imag_norm, "/=").value,
              angle |-> double_atan2(imag_norm, q.w)]

axis_angle(q) ==
    LET imag == vec_components(3, <<q.x, q.y, q.z>>)
        imag_norm == norm(imag)
    IN  IF Le(imag_norm, Epsilon)
        THEN [axis |-> vec_default(3), angle |-> AngleZero]
        ELSE [axis |-> vec_binary_scalar(imag, imag_norm, "/=").value,
              angle |-> double_atan2(imag_norm, q.w)]

\* scale * m, which is m * scale
scale_mat(scale, mm) == mat_binary_scalar(mm, scale, "*=").value

\* rotation(axis, angle): r{mat<3, 3, T>{1} + (T{1} - cos_angle) * cross * cross
\* + sin_angle * cross}, then r[3, 3] = T{1}
rotation_axis_angle(axis, a) ==
    LET c == cross_matrix(axis)
        sum == mat_binary(
                  mat_binary(mat_scalar(3, 3, One).value,
                             mat_mul(scale_mat(Minus(One, cos_angle(a)), c), c),
                             "+=").value,
                  scale_mat(sin_angle(a), c), "+=").value
    IN  mat_set(mat_convert(4, 4, sum), 3, 3, One)

\* rotation(q): the identity when the angle of axis_angle(q) is <= epsilon,
\* else rotation(axis, angle)
rotation_quat(q) ==
    LET aa == axis_angle(q)
    IN  IF angle_le_epsilon(aa.angle) THEN mat_scalar(4, 4, One).value
        ELSE rotation_axis_angle(aa.axis, aa.angle)


\* sqrt(2) / 2, the sine and the cosine of pi / 4
Sigma == Surd(1, 2)

\* the angles pi, pi / 2, four angles of the 3-4-5 triangle, and one angle
\* below epsilon and its complement to 2 * pi
Angles ==
    {angle(Zero, One), angle(Sigma, Sigma),
     angle(Rat(3, 5), Rat(4, 5)), angle(Rat(4, 5), Rat(3, 5)),
     angle(Rat(-3, 5), Rat(4, 5)), angle(Rat(-4, 5), Rat(3, 5)),
     angle(Rat(544, 545), Rat(33, 545)), angle(Rat(-544, 545), Rat(33, 545))}

RightAngle == angle(Sigma, Sigma)

\* the axes of norm one with components among -1, 0, 1, 3/5 and 4/5
UnitAxes ==
    {u \in {vec_components(3, c) : c \in [1..3 -> {T(-1), Zero, One, Rat(3, 5), Rat(4, 5)}]} :
        norm_squared(u) = One}

\* the factors by which a versor is scaled to a quaternion of another norm
Scales == {One, Epsilon, T(545)}

InitRotation ==
    /\ v \in UnitAxes \cup {vec_default(3)}
    /\ m = mat_default(1, 1)
    /\ nw = 0
    /\ out = NoOp

\* rotation(versor(v, a)) * (u, 1) and rotation(v, a) * (u, 1)
RotationVersor ==
    /\ out.op = "none"
    /\ norm_squared(v) = One
    /\ \E a \in Angles, u \in VecArgs(3) :
          LET via_quat == rotation_quat(versor(v, a))
              direct == rotation_axis_angle(v, a)
          IN  out' = [op |-> "rotation_versor", status |-> "ok", angle |-> a, u |-> u,
                      via_quat |-> via_quat, direct |-> direct,
                      via_quat_u |-> mat_mul_vec(via_quat, Homogeneous(u, One)),
                      direct_u |-> mat_mul_vec(direct, Homogeneous(u, One))]
    /\ UNCHANGED <<v, m, nw>>

\* rotation(q) and axis_angle(q) for q = versor(v, a) * k
RotationQuat ==
    /\ out.op = "none"
    /\ \E a \in Angles \cup {AngleZero}, k \in Scales :
          LET q == vec_binary_scalar(versor(v, a), k, "*=").value
          IN  out' = [op |-> "rotation_quat", status |-> "ok", q |-> q,
                      axis_angle |-> axis_angle(q),
                      value |-> rotation_quat(q)]
    /\ UNCHANGED <<v, m, nw>>

NextRotation ==
    \/ RotationVersor
    \/ RotationQuat

SpecRotation == InitRotation /\ [][NextRotation]_vars

\* C25: rotation(q) is the 4x4 identity whenever the angle axis_angle(q)
\* extracts is <= epsilon, which it is for every q whose imaginary part has a
\* norm <= epsilon (the pair is then the zero axis and the zero angle);
\* otherwise it is rotation(axis, angle) for the pair extracted, where axis
\* is imag / |imag| and angle is 2 * atan2(|imag|, w).
C25_RotationQuat ==
    out.op = "rotation_quat" =>
        LET imag == vec_components(3, <<out.q.x, out.q.y, out.q.z>>)
            small == Le(norm_squared(imag), Times(Epsilon, Epsilon))
            aa == out.axis_angle
            length == Sqrt(norm_squared(out.q))
        IN  /\ small => (aa.axis = vec_default(3) /\ aa.angle = AngleZero)
            /\ small => angle_le_epsilon(aa.angle)
            /\ angle_le_epsilon(aa.angle) => IsIdentity(out.value)
            /\ ~small =>
                  /\ scale_vec(Sqrt(norm_squared(imag)), aa.axis) = imag
                  /\ norm_squared(aa.axis) = One
                  /\ Times(aa.angle.cos_half, length) = out.q.w
                  /\ Times(aa.angle.sin_half, length) = Sqrt(norm_squared(imag))
            /\ ~angle_le_epsilon(aa.angle) =>
                  out.value = rotation_axis_angle(aa.axis, aa.angle)

C25_Witness ==
    /\ out.op = "rotation_quat"
    /\ out.q = quat(Zero, Zero, T(33), T(544))
    /\ out.axis_angle.axis = vec_components(3, <<Zero, Zero, One>>)
    /\ out.axis_angle.angle = angle(Rat(544, 545), Rat(33, 545))
    /\ IsIdentity(out.value)

\* the last row and the last column of a 4x4 matrix are (0, 0, 0, 1)
Affine(mm) ==
    /\ \A i \in 0..2 : Entry(mm, 3, i) = Zero /\ Entry(mm, i, 3) = Zero
    /\ Entry(mm, 3, 3) = One

\* C26 as stated: for a unit axis and every angle in (0, 2 * pi),
\* rotation(versor(axis, angle)) and rotation(axis, angle) applied to a
\* homogeneous vector give the same result.
C26_RotationVersorAsStated ==
    out.op = "rotation_versor" =>
        /\ out.via_quat_u = out.direct_u
        /\ Affine(out.via_quat)
        /\ Affine(out.direct)

\* the angle is above epsilon and so is the sine of its half
AboveEpsilon(a) == ~Le(a.sin_half, Epsilon) /\ ~angle_le_epsilon(a)

\* C26: for a unit axis and an angle in (0, 2 * pi) that is above epsilon and
\* whose half has a sine above epsilon, rotation(versor(axis, angle)) and
\* rotation(axis, angle) applied to a homogeneous vector give the same
\* result; for the other angles rotation(versor(axis, angle)) is the
\* identity; the last row and column of both are (0, 0, 0, 1); for axis
\* (0, 0, 1), angle pi / 2 and the vector (1, 0, 0, 1) both give (0, 1, 0, 1).
C26_RotationVersor ==
    out.op = "rotation_versor" =>
        /\ AboveEpsilon(out.angle) =>
              (out.via_quat = out.direct /\ out.via_quat_u = out.direct_u)
        /\ ~AboveEpsilon(out.angle) =>
              (IsIdentity(out.via_quat) /\ ~IsIdentity(out.direct))
        /\ Affine(out.via_quat)
        /\ Affine(out.direct)
        /\ (v = vec_components(3, <<Zero, Zero, One>>) /\ out.angle = RightAngle
              /\ out.u = vec_components(3, <<One, Zero, Zero>>)) =>
              /\ out.via_quat_u = vec_components(4, <<Zero, One, Zero, One>>)
              /\ out.direct_u = vec_components(4, <<Zero, One, Zero, One>>)

C26_Witness ==
    /\ out.op = "rotation_versor"
    /\ v = vec_components(3, <<Zero, Zero, One>>)
    /\ out.angle = RightAngle
    /\ out.u = vec_components(3, <<One, Zero, Zero>>)
    /\ out.via_quat_u = vec_components(4, <<Zero, One, Zero, One>>)
    /\ out.direct_u = vec_components(4, <<Zero, One, Zero, One>>)


(***************************************************************************)
(* Two threads, each operating on an instance of its own.  Thread 1 owns   *)
(* the vector or quaternion v, thread 2 owns the matrix m; a step of a     *)
(* thread is one read or one write of one component.                       *)
(***************************************************************************)
\* the operations both threads start, in all
MaxThreadOps == 3

Threads == {1, 2}

\* the components of an instance in the order the loops visit them: those of
\* a vec by index, those of a mat column by column
IsVec(x) == "dimension" \in DOMAIN x

instance_size(x) == IF IsVec(x) THEN x.dimension ELSE x.column_count * x.row_count

instance_get(x, i) ==
    IF IsVec(x) THEN vec_get(x, i) ELSE mat_get(x, i \div x.row_count, i % x.row_count)

instance_set(x, i, val) ==
    IF IsVec(x) THEN vec_set(x, i, val)
    ELSE mat_set(x, i \div x.row_count, i % x.row_count, val)

\* the automatic storage of a call is the calling thread's: the value a
\* functor has read and not yet written back is held per thread
reg_of_mutant(self) == 1

reg_of(self) == self

\* the right operands of the operations: temporaries of the calling thread
ThreadVec == vec_components(2, <<T(1), T(2)>>)

ThreadQuat == quat(T(1), T(2), T(0), T(1))

ThreadMat == mat_columns(<<vec_components(2, <<T(1), T(2)>>), vec_components(2, <<T(0), T(1)>>)>>)

ThreadScale == T(2)

\* the operand of the same type as the instance x
operand_for(x) ==
    IF ~IsVec(x) THEN ThreadMat ELSE IF x.dimension = 4 THEN ThreadQuat ELSE ThreadVec

\* the operations an instance has: +=, -= with an operand of its type
\* (zip_transform), *=, /= with a scalar (transform), a range-based for loop
\* over its components and, for a quat and a mat, lhs = lhs * rhs
ThreadOps(x) ==
    {[op |-> "zip", f |-> f] : f \in {"+=", "-="}}
    \cup {[op |-> "scale", f |-> f] : f \in {"*=", "/="}}
    \cup {[op |-> "iterate", f |-> "+="]}
    \cup (IF IsVec(x) /\ x.dimension # 4 THEN {} ELSE {[op |-> "product", f |-> "*="]})

\* the sum a range-based for loop over the components accumulates
RECURSIVE accumulate(_, _, _)
accumulate(x, sum, i) ==
    IF i >= instance_size(x) THEN sum
    ELSE accumulate(x, addition_assignment(sum, instance_get(x, i)), i + 1)

\* lhs * rhs of the instance's type
product(lhs, rhs) == IF IsVec(lhs) THEN quat_mul(lhs, rhs) ELSE mat_mul(lhs, rhs)

\* the value an operation gives the instance x when nothing else runs
alone(x, o) ==
    IF o.op = "zip"
    THEN (IF IsVec(x) THEN vec_compound(x, operand_for(x), o.f).lhs
          ELSE mat_compound(x, operand_for(x), o.f).lhs)
    ELSE IF o.op = "scale"
    THEN (IF IsVec(x) THEN vec_compound_scalar(x, ThreadScale, o.f).lhs
          ELSE mat_compound_scalar(x, ThreadScale, o.f).lhs)
    ELSE IF o.op = "product" THEN product(x, operand_for(x))
    ELSE x

IdleThread(x) ==
    [op |-> "idle", f |-> "+=", phase |-> "read", i |-> 0, tmp |-> x, sum |-> Zero,
     alone |-> x, alone_sum |-> Zero]

NoAccess == [thread |-> 0, instance |-> 0, access |-> "none", index |-> 0]

InitThreads ==
    /\ v \in {ThreadVec, ThreadQuat}
    /\ m = ThreadMat
    /\ nw = 0
    /\ out = [op |-> "threads", status |-> "ok",
              t |-> [self \in Threads |-> IdleThread(IF self = 1 THEN v ELSE m)],
              reg |-> [self \in Threads |-> Zero],
              last |-> NoAccess, overlap |-> FALSE]

\* the instance of a thread
instance(self) == IF self = 1 THEN v ELSE m

\* thread self writes val to component i of its instance
Store(self, i, val) ==
    IF self = 1 THEN v' = instance_set(v, i, val) /\ UNCHANGED m
    ELSE m' = instance_set(m, i, val) /\ UNCHANGED v

\* a step of thread self is taken while the other thread is inside an operation
Overlaps(self) == out.overlap \/ \E other \in Threads \ {self} : out.t[other].op # "idle"

Access(self, kind, i) == [thread |-> self, instance |-> self, access |-> kind, index |-> i]

\* thread self calls an operation on its instance
ThreadCall(self) ==
    /\ out.op = "threads"
    /\ out.t[self].op = "idle"
    /\ nw < MaxThreadOps
    /\ \E o \in ThreadOps(instance(self)) :
          out' = [out EXCEPT
                    !.t[self] = [@ EXCEPT !.op = o.op, !.f = o.f, !.phase = "read", !.i = 0,
                                          !.sum = IF o.op = "iterate" THEN Zero ELSE @,
                                          !.alone = alone(@, o),
                                          !.alone_sum = IF o.op = "iterate"
                                                        THEN accumulate(out.t[self].alone, Zero, 0)
                                                        ELSE @],
                    !.overlap = Overlaps(self)]
    /\ nw' = nw + 1
    /\ UNCHANGED <<v, m>>

\* thread self reads component i of its instance: the left operand of the
\* functor, the component a loop adds to its sum, or an operand of the product
ThreadRead(self) ==
    /\ out.op = "threads"
    /\ out.t[self].op \in {"zip", "scale", "iterate", "product"}
    /\ out.t[self].phase = "read"
    /\ out.t[self].i < instance_size(instance(self))
    /\ LET th == out.t[self]
           val == instance_get(instance(self), th.i)
           last == th.i + 1 >= instance_size(instance(self))
       IN  out' = [out EXCEPT
                     !.reg[reg_of(self)] = IF th.op \in {"zip", "scale"} THEN val ELSE @,
                     !.t[self] =
                        IF th.op \in {"zip", "scale"} THEN [@ EXCEPT !.phase = "write"]
                        ELSE IF th.op = "iterate"
                        THEN [@ EXCEPT !.sum = addition_assignment(@, val), !.i = @ + 1]
                        ELSE IF last
                        THEN [@ EXCEPT !.tmp = product(instance_set(th.tmp, th.i, val),
                                                       operand_for(th.tmp)),
                                       !.phase = "write", !.i = 0]
                        ELSE [@ EXCEPT !.tmp = instance_set(@, th.i, val), !.i = @ + 1],
                     !.last = Access(self, "read", th.i),
                     !.overlap = Overlaps(self)]
    /\ UNCHANGED <<v, m, nw>>

\* thread self writes component i of its instance: the result of the functor
\* or a component of the product assigned to the left operand
ThreadWrite(self) ==
    /\ out.op = "threads"
    /\ out.t[self].op \in {"zip", "scale", "product"}
    /\ out.t[self].phase = "write"
    /\ out.t[self].i < instance_size(instance(self))
    /\ LET th == out.t[self]
           val == IF th.op = "zip"
                  THEN assignment_functor(th.f, out.reg[reg_of(self)],
                                          instance_get(operand_for(instance(self)), th.i))
                  ELSE IF th.op = "scale"
                  THEN scale_lambda(th.f, out.reg[reg_of(self)], ThreadScale)
                  ELSE instance_get(th.tmp, th.i)
       IN  /\ Store(self, th.i, val)
           /\ out' = [out EXCEPT
                        !.t[self] = [@ EXCEPT !.i = @ + 1,
                                              !.phase = IF th.op = "product" THEN "write"
                                                        ELSE "read"],
                        !.last = Access(self, "write", th.i),
                        !.overlap = Overlaps(self)]
    /\ UNCHANGED nw

\* the loop of thread self has visited every component: the operation returns
ThreadReturn(self) ==
    /\ out.op = "threads"
    /\ out.t[self].op # "idle"
    /\ out.t[self].i >= instance_size(instance(self))
    /\ out' = [out EXCEPT !.t[self] = [@ EXCEPT !.op = "idle", !.phase = "read", !.i = 0],
                          !.overlap = Overlaps(self)]
    /\ UNCHANGED <<v, m, nw>>

NextThreads ==
    \/ \E self \in Threads : ThreadCall(self)
    \/ \E self \in Threads : ThreadRead(self)
    \/ \E self \in Threads : ThreadWrite(self)
    \/ \E self \in Threads : ThreadReturn(self)

SpecThreads == InitThreads /\ [][NextThreads]_vars

\* C27: two threads, each running a sequence of operations on an instance of
\* its own and interleaved at single component reads and writes, leave each
\* instance with the value its sequence gives when it runs alone, and every
\* read and write of a thread is of its own instance.
C27_IndependentInstances ==
    out.op = "threads" =>
        /\ \A self \in Threads :
              out.t[self].op = "idle" =>
                  /\ instance(self) = out.t[self].alone
                  /\ out.t[self].sum = out.t[self].alone_sum
        /\ out.last.instance = out.last.thread

C27_Witness ==
    /\ out.op = "threads"
    /\ out.overlap
    /\ nw = MaxThreadOps
    /\ \A self \in Threads :
          /\ out.t[self].op = "idle"
          /\ instance(self) = out.t[self].alone
          /\ instance(self) # operand_for(instance(self))


(***************************************************************************)
(* Postfix increment and decrement of vec::iterator.                       *)
(***************************************************************************)
\* iterator::operator--(): --pos_, the iterator itself is returned
prefix_decrement(it) == [it EXCEPT !.pos_ = @ - 1]

\* iterator::operator++(int): auto tmp{self}; ++tmp; return tmp; the iterator
\* itself after the call, and the iterator returned
postfix_increment(self) ==
    LET tmp == self
    IN  [self |-> self, value |-> prefix_increment(tmp)]

\* iterator::operator--(int): auto tmp{self}; --tmp; return tmp
postfix_decrement(self) ==
    LET tmp == self
    IN  [self |-> self, value |-> prefix_decrement(tmp)]

InitPostfix ==
    /\ v \in {vec_default(N) : N \in 1..4}
    /\ m = mat_default(1, 1)
    /\ nw = 0
    /\ out = NoOp

\* auto it = v.begin()
PostfixBegin ==
    /\ out' = [op |-> "begin", status |-> "ok", it |-> begin("v"), value |-> begin("v"),
               before |-> 0, steps |-> 0, postfix_only |-> TRUE]
    /\ UNCHANGED <<v, m, nw>>

\* ++it
PostfixPrefixIncrement ==
    /\ out.op # "none"
    /\ out.it.pos_ < MaxIndex
    /\ out' = [out EXCEPT !.op = "prefix_increment", !.before = out.it.pos_,
                          !.it = prefix_increment(@), !.value = prefix_increment(out.it),
                          !.postfix_only = FALSE]
    /\ UNCHANGED <<v, m, nw>>

\* it++, the steps-th since begin()
PostfixIncrement ==
    /\ out.op # "none"
    /\ out.steps < MaxIndex
    /\ LET res == postfix_increment(out.it)
       IN  out' = [out EXCEPT !.op = "postfix_increment", !.before = out.it.pos_,
                              !.it = res.self, !.value = res.value, !.steps = @ + 1]
    /\ UNCHANGED <<v, m, nw>>

\* it--, for an iterator past begin()
PostfixDecrement ==
    /\ out.op # "none"
    /\ out.it.pos_ > 0
    /\ LET res == postfix_decrement(out.it)
       IN  out' = [out EXCEPT !.op = "postfix_decrement", !.before = out.it.pos_,
                              !.it = res.self, !.value = res.value,
                              !.postfix_only = FALSE]
    /\ UNCHANGED <<v, m, nw>>

NextPostfix ==
    \/ PostfixBegin
    \/ PostfixPrefixIncrement
    \/ PostfixIncrement
    \/ PostfixDecrement

SpecPostfix == InitPostfix /\ [][NextPostfix]_vars

\* C28: after it++ on an iterator at position p the iterator is at p + 1 and
\* the iterator returned is at p; after it-- the iterator is at p - 1 and the
\* iterator returned is at p; an iterator advanced from begin() by it++ alone
\* equals end() after exactly N steps.
C28_PostfixAdvances ==
    /\ out.op = "postfix_increment" =>
          (out.it.pos_ = out.before + 1 /\ out.value.pos_ = out.before)
    /\ out.op = "postfix_decrement" =>
          (out.it.pos_ = out.before - 1 /\ out.value.pos_ = out.before)
    /\ (out.op # "none" /\ out.postfix_only) =>
          (iterator_equal(out.it, end("v", v)) <=> out.steps = v.dimension)


(***************************************************************************)
(* outer_product.                                                          *)
(***************************************************************************)
\* outer_product(lhs, rhs): mat<M, N, T> m, which has M rows and N columns;
\* m[col, row] = lhs[row] * rhs[col] for every row < N and col < M
RECURSIVE outer_product_loop_col(_, _, _, _, _)
outer_product_loop_col(res, lhs, rhs, row, col) ==
    IF col >= rhs.dimension \/ res.status # "ok" THEN res
    ELSE outer_product_loop_col(
            mat_assign(res, col, row,
                       multiplication_assignment(vec_get(lhs, row), vec_get(rhs, col))),
            lhs, rhs, row, col + 1)

RECURSIVE outer_product_loop_row(_, _, _, _)
outer_product_loop_row(res, lhs, rhs, row) ==
    IF row >= lhs.dimension \/ res.status # "ok" THEN res
    ELSE outer_product_loop_row(outer_product_loop_col(res, lhs, rhs, row, 0),
                                lhs, rhs, row + 1)

outer_product(lhs, rhs) ==
    outer_product_loop_row(
        [status |-> "ok", value |-> mat_default(rhs.dimension, lhs.dimension)], lhs, rhs, 0)

InitOuter ==
    /\ v \in UNION {VecArgs(N) : N \in 1..4}
    /\ m = mat_default(1, 1)
    /\ nw = 0
    /\ out = NoOp

\* outer_product(v, rhs)
OuterProduct ==
    /\ out.op = "none"
    /\ \E rhs \in UNION {VecOperands(M, 1) : M \in 1..4} :
          LET res == outer_product(v, rhs)
          IN  out' = [op |-> "outer_product", status |-> res.status, rhs |-> rhs,
                      value |-> res.value]
    /\ UNCHANGED <<v, m, nw>>

NextOuter == OuterProduct

SpecOuter == InitOuter /\ [][NextOuter]_vars

\* C30: for all dimensions N and M in 1..4, outer_product(a, b) writes only
\* entries inside the bounds of its result, raises no range error, and the
\* entry of the result at (column col, row row) is a[row] * b[col] for every
\* row < N and col < M.
C30_OuterProduct ==
    out.op = "outer_product" =>
        /\ out.status = "ok"
        /\ \A row \in 0..(v.dimension - 1), col \in 0..(out.rhs.dimension - 1) :
              /\ col < out.value.column_count
              /\ row < out.value.row_count
              /\ Entry(out.value, col, row) =
                    multiplication_assignment(vec_get(v, row), vec_get(out.rhs, col))

\* outer_product of two vectors of one dimension is the matrix of the claim
OuterProduct_Square ==
    (out.op = "outer_product" /\ v.dimension = out.rhs.dimension) =>
        /\ out.status = "ok"
        /\ \A row \in 0..(v.dimension - 1), col \in 0..(out.rhs.dimension - 1) :
              Entry(out.value, col, row) =
                  multiplication_assignment(vec_get(v, row), vec_get(out.rhs, col))

\* with N < M the column index reaches the column count N of the result, and
\* with N > M the row index reaches its row count M
OuterProduct_Rectangular ==
    (out.op = "outer_product" /\ v.dimension # out.rhs.dimension) =>
        out.status = IF v.dimension < out.rhs.dimension THEN Undefined ELSE Terminate


(***************************************************************************)
(* Scalar compound assignment with a scale that refers to a component of   *)
(* the left operand.                                                       *)
(***************************************************************************)
\* the parameter value_type const& scale, which the lambda captures by
\* reference: bound to an object apart from the left operand, or to the
\* component index of a vector, or to the entry (column, row) of a matrix
scale_value(val) == [to |-> "object", value |-> val]

scale_component(index) == [to |-> "component", index |-> index]

scale_entry(column, row) == [to |-> "entry", column |-> column, row |-> row]

\* the value of scale when the lambda reads it, u being the left operand then
captured_scale(u, scale) ==
    IF scale.to = "component" THEN vec_get(u, scale.index)
    ELSE IF scale.to = "entry" THEN mat_get(u, scale.column, scale.row)
    ELSE scale.value

\* transform(v, [&scale](auto& component) { return component op= scale; })
RECURSIVE transform_capture_loop(_, _, _, _)
transform_capture_loop(u, f, scale, i) ==
    IF i >= u.dimension THEN u
    ELSE transform_capture_loop(
            vec_set(u, i, scale_lambda(f, vec_get(u, i), captured_scale(u, scale))),
            f, scale, i + 1)

\* operator*=, /= (vec&, value_type const&)
vec_compound_capture(u, scale, f) == transform_capture_loop(u, f, scale, 0)

\* operator*=, /= (mat&, value_type const&): for_each(m, [&scale](auto& column)
\* { return column op= scale; }); within column i the scale is the component
\* row of that column when it refers to an entry of column i
RECURSIVE mat_compound_capture_loop(_, _, _, _)
mat_compound_capture_loop(mm, scale, f, i) ==
    IF i >= mm.column_count THEN mm
    ELSE LET column_scale ==
                 IF scale.to = "entry" /\ scale.column = i THEN scale_component(scale.row)
                 ELSE scale_value(captured_scale(mm, scale))
         IN  mat_compound_capture_loop(
                [mm EXCEPT !.columns_[i] = vec_compound_capture(@, column_scale, f)],
                scale, f, i + 1)

mat_compound_capture(mm, scale, f) == mat_compound_capture_loop(mm, scale, f, 0)

\* the arguments scale of v op= scale and of m op= scale
VecScales(u) ==
    {scale_value(val) : val \in Vals} \cup {scale_component(i) : i \in 0..(u.dimension - 1)}

MatScales(mm) ==
    {scale_value(val) : val \in Vals}
    \cup {scale_entry(c, r) : c \in 0..(mm.column_count - 1), r \in 0..(mm.row_count - 1)}

InitCapture ==
    /\ v \in UNION {VecArgs(N) : N \in 1..3}
    /\ m \in Operands(2, 2, 2)
    /\ nw = 0
    /\ out = NoOp

\* v *= scale and v /= scale
VecScaleCapture ==
    /\ out.op = "none"
    /\ \E f \in {"*=", "/="}, scale \in VecScales(v) :
          /\ v' = vec_compound_capture(v, scale, f)
          /\ out' = [op |-> "vec_scale", status |-> "ok", f |-> f, scale |-> scale,
                     before |-> v, called_with |-> captured_scale(v, scale)]
    /\ UNCHANGED <<m, nw>>

\* m *= scale and m /= scale
MatScaleCapture ==
    /\ out.op = "none"
    /\ \E f \in {"*=", "/="}, scale \in MatScales(m) :
          /\ m' = mat_compound_capture(m, scale, f)
          /\ out' = [op |-> "mat_scale", status |-> "ok", f |-> f, scale |-> scale,
                     before |-> m, called_with |-> captured_scale(m, scale)]
    /\ UNCHANGED <<v, nw>>

NextCapture ==
    \/ VecScaleCapture
    \/ MatScaleCapture

SpecCapture == InitCapture /\ [][NextCapture]_vars

\* every component of the left operand is the component before the call
\* scaled by the value scale had when the operator was called
ScaledByCallValue ==
    /\ out.op = "vec_scale" =>
          \A i \in 0..(v.dimension - 1) :
              vec_get(v, i) = scale_lambda(out.f, vec_get(out.before, i), out.called_with)
    /\ out.op = "mat_scale" =>
          \A c \in 0..(m.column_count - 1), r \in 0..(m.row_count - 1) :
              Entry(m, c, r) = scale_lambda(out.f, Entry(out.before, c, r), out.called_with)

\* C29: after v *= s, v /= s, m *= s and m /= s every component is its old
\* value multiplied (divided) by the value s had when the operator was
\* called, also when s refers to a component of the left operand.
C29_ScaleByOneValue == out.op \in {"vec_scale", "mat_scale"} => ScaledByCallValue

\* a scale that is an object apart from the left operand scales every
\* component by one value
Capture_Unaliased ==
    (out.op \in {"vec_scale", "mat_scale"} /\ out.scale.to = "object") => ScaledByCallValue

====
